---- MODULE Spec2Model ----
(***************************************************************************)
(* world-outline-map: the view-transform and interaction-state engine.     *)
(*                                                                         *)
(* Part 1: pan/zoom controller (setupMapNavigation).                       *)
(* Part 2: highlight state (createHighlightActions).                       *)
(*                                                                         *)
(* JavaScript numbers are modelled as exact rationals <<n, d>> (d > 0, in  *)
(* lowest terms): every product, quotient and comparison of the code is    *)
(* computed, without the rounding of IEEE doubles.                         *)
(***************************************************************************)
EXTENDS Integers, Sequences, FiniteSets, TLC

(***************************************************************************)
(* Bounds of the model.                                                    *)
(***************************************************************************)
\* the number of calls of one run of the controller's operations
MaxSteps == 3

\* the number of events of one run of the event handlers
MaxEvents == 4

\* the number of calls of one run of the highlight operations
MaxHighlightCalls == 4

MaxGameEvents == 4

MaxGeometryCalls == 3

(***************************************************************************)
(* Exact rational arithmetic.                                              *)
(***************************************************************************)
IAbs(n) == IF n < 0 THEN -n ELSE n

RECURSIVE GCD(_, _)
GCD(a, b) == IF b = 0 THEN a ELSE GCD(b, a % b)

LCM(a, b) == (a \div GCD(a, b)) * b

\* the rational n/d in lowest terms, d > 0
Rat(n, d) ==
  LET s == IF d < 0 THEN -1 ELSE 1
      g == GCD(IAbs(n), IAbs(d))
  IN  <<(s * n) \div g, (s * d) \div g>>

R(n) == <<n, 1>>

RAdd(a, b) ==
  LET l == LCM(a[2], b[2])
  IN  Rat(a[1] * (l \div a[2]) + b[1] * (l \div b[2]), l)

RNeg(a) == <<-a[1], a[2]>>

RSub(a, b) == RAdd(a, RNeg(b))

RMul(a, b) ==
  LET g1 == GCD(IAbs(a[1]), b[2])
      g2 == GCD(IAbs(b[1]), a[2])
  IN  Rat((a[1] \div g1) * (b[1] \div g2), (a[2] \div g2) * (b[2] \div g1))

\* b # 0
RDiv(a, b) == RMul(a, Rat(b[2], b[1]))

RLt(a, b) ==
  LET l == LCM(a[2], b[2])
  IN  a[1] * (l \div a[2]) < b[1] * (l \div b[2])

RLe(a, b) == ~RLt(b, a)

RAbs(a) == <<IAbs(a[1]), a[2]>>

\* Math.min, Math.max
RMin(a, b) == IF RLt(b, a) THEN b ELSE a

RMax(a, b) == IF RLt(a, b) THEN b ELSE a

\* Number(v) || fallback, for a finite number v: 0 is falsy
NumberOr(v, fallback) == IF v[1] = 0 THEN fallback ELSE v

(***************************************************************************)
(* State.                                                                  *)
(***************************************************************************)
VARIABLES
  zoom,          \* state.zoom
  pan,           \* state.pan: [x, y]
  client,        \* svgEl.clientWidth / clientHeight: [w, h]
  navConfig,     \* config.minZoom, maxZoom, zoomStep, wheelZoomStep, panPadding
  dragState,     \* setupMapNavigation's dragState: NoDrag or a record
  suppressCountryClickUntil,  \* svgEl.dataset.suppressCountryClickUntil ("" reads as 0)
  now,           \* Date.now(), in ms since the page was loaded
  renderFrameId, \* initApp's renderFrameId and the frame callbacks of the window:
                 \* [id, callbacks, requests, served]
  zoomButtons,   \* the disabled flags of the zoom buttons: [zoomIn, zoomOut, zoomReset]
  lastCall,      \* history: the last call, its arguments, result and the state before it
  steps,         \* history: the number of operations so far
  initialColors, \* state.initialColors: letter -> color
  colorCursor,   \* state.colorCursor
  activeInitial, \* state.activeInitial: a letter or Null
  paletteConfig, \* config.highlightPalette and config.highlightFillColor
  lastHighlightCall, \* history: the last highlight call, its result and the state before it
  highlightLog,  \* history: every highlight call so far, oldest first
  gameActive,    \* state.gameActive
  gameStatus,    \* state.gameStatus: "idle", "running", "won" or "lost"
  gameTargetLetter,      \* state.gameTargetLetter: a letter or Null
  gameRequiredCount,     \* state.gameRequiredCount
  gameTargetCountryIds,  \* state.gameTargetCountryIds: the set of its keys
  gameFoundCountryIds,   \* state.gameFoundCountryIds: the set of its keys
  gameScore,     \* state.gameScore
  gameStreak,    \* state.gameStreak
  gameBestStreak,        \* state.gameBestStreak
  gameBestScore, \* state.gameBestScore
  gameFoundCount,        \* state.gameFoundCount
  gameTimeRemaining,     \* state.gameTimeRemaining, in seconds
  gameMessage,   \* state.gameMessage: the kind of message shown
  timerId,       \* setupGameMode's timerId: an interval id, or 0 for null
  intervals,     \* the interval ids the window has scheduled and not cleared
  intervalCount, \* the number of intervals ever scheduled (the last id given out)
  storedBest,    \* localStorage["worldMapGameBestScore"] as a number, 0 when absent
  storageFails,  \* TRUE when localStorage throws on every access
  gameConfig,    \* config.gameRoundSeconds, gameTargetCount, gameCorrectScore, ...
  countryPaths,  \* the path[data-country-id] elements of the map, in document order
  lastGameCall,  \* history: the last game operation, its input and the state before it
  gameLog,       \* history of the round: [correctRun, awards, ticks]
  gameButtons,   \* the disabled flags of the Start and Stop buttons: [start, stop]
  mobileButtons, \* the disabled flags of the letter chips and of the mobile Clear
                 \* button: [letters, clear]
  geometryCache, \* mapRenderer's geometryCache: [topoRef, width, height, configKey, data]
  lastGeometryCall,  \* history: the last getGeometryState call, its result and the
                     \* cache before it
  mapCountries,  \* the country features the paths are bound to: [id, name], id = Null
                 \* for a feature without id
  fillConfig,    \* config.gameFoundFillColor, gameFoundStrokeColor, gameFoundStrokeWidth
  lastRender,    \* history: the found set and the colors the last renderWorldOutline
                 \* read, and the fill and stroke it gave each country path
  layers,        \* the layer groups of the svg in document order: [map, overlay]
  pointerLog,    \* history: per pointer the press the drag handlers accepted (its start
                 \* and whether a move went beyond the threshold), and the last
                 \* pointer event
  popup,         \* the id of the country the country popup shows, "" while none was
                 \* opened
  lastClick      \* history: the last click on a country path

viewVars == <<zoom, pan>>

gestureVars == <<dragState, pointerLog, suppressCountryClickUntil>>

navVars == <<zoom, pan, client, navConfig, dragState, pointerLog,
             suppressCountryClickUntil, now,
             renderFrameId, zoomButtons, lastCall, steps>>

highlightVars == <<initialColors, colorCursor, activeInitial, paletteConfig,
                   lastHighlightCall, highlightLog>>

\* what the pan/zoom operations leave alone, and what the highlight operations leave alone
gameStateVars == <<gameActive, gameStatus, gameTargetLetter, gameRequiredCount,
                   gameTargetCountryIds, gameFoundCountryIds, gameScore, gameStreak,
                   gameBestStreak, gameBestScore, gameFoundCount, gameTimeRemaining,
                   gameMessage>>

timerVars == <<timerId, intervals, intervalCount>>

gameCoreVars == <<gameStateVars, timerVars, storedBest, storageFails, gameConfig,
                  countryPaths, lastGameCall, gameLog>>

gameVars == <<gameCoreVars, gameButtons, mobileButtons>>

geometryVars == <<geometryCache, lastGeometryCall>>

drawVars == <<mapCountries, fillConfig, lastRender, layers>>

clickVars == <<popup, lastClick>>

nonNavVars == <<highlightVars, gameVars, geometryVars, drawVars, clickVars>>

nonHighlightVars == <<zoom, pan, client, navConfig, dragState, pointerLog,
             suppressCountryClickUntil, now,
                      renderFrameId, zoomButtons, lastCall, gameVars, geometryVars,
                      drawVars, clickVars>>

vars == <<navVars, highlightVars, gameVars, geometryVars, drawVars, clickVars>>

Origin == [x |-> R(0), y |-> R(0)]

NoCall == [name |-> "none"]

NoDrag == [pointerId |-> 0]

\* renderFrameId = null and no frame callback waits: id is TRUE while renderFrameId
\* holds a request id, callbacks counts the callbacks the window has queued; history:
\* requests counts the render() calls since the last renderNow(), served is that count
\* at the last renderNow()
NoFrame == [id |-> FALSE, callbacks |-> 0, requests |-> 0, served |-> 0]

(***************************************************************************)
(* Pan/zoom controller.                                                    *)
(***************************************************************************)
\* clamp(value, min, max)
clamp(value, min, max) == RMin(max, RMax(min, value))

\* getViewportSize(svgEl)
getViewportSize(cl) ==
  [width |-> RMax(R(320), cl.w), height |-> RMax(R(200), cl.h)]

\* mutant of clampPan: the pan is forced to (0, 0) only below the native scale
clampPan_StrictNativeTest(p, z, width, height, panPadding) ==
  IF RLt(z, R(1))
  THEN [x |-> R(0), y |-> R(0)]
  ELSE LET minX == RSub(RMul(width, RSub(R(1), z)), panPadding)
           minY == RSub(RMul(height, RSub(R(1), z)), panPadding)
       IN  [x |-> RMin(panPadding, RMax(minX, p.x)), y |-> RMin(panPadding, RMax(minY, p.y))]

\* clampPan({ pan, zoom, width, height, panPadding })
clampPan(p, z, width, height, panPadding) ==
  IF RLe(z, R(1))
  THEN [x |-> R(0), y |-> R(0)]
  ELSE LET minX == RSub(RMul(width, RSub(R(1), z)), panPadding)
           maxX == panPadding
           minY == RSub(RMul(height, RSub(R(1), z)), panPadding)
           maxY == panPadding
       IN  [x |-> clamp(p.x, minX, maxX), y |-> clamp(p.y, minY, maxY)]

\* the bounds setupMapNavigation derives from the configuration
minZoomOf(c) == NumberOr(c.minZoom, R(1))

maxZoomOf(c) == RMax(minZoomOf(c), NumberOr(c.maxZoom, R(8)))

zoomStepOf(c) == RMax(Rat(101, 100), NumberOr(c.zoomStep, Rat(6, 5)))

wheelZoomStepOf(c) == RMax(Rat(1, 100), NumberOr(c.wheelZoomStep, Rat(3, 20)))

panPaddingOf(c) == RMax(R(0), NumberOr(c.panPadding, R(0)))

ZoomEpsilon == Rat(1, 10000)

\* mutant of zoomUnchanged: the target is compared before it is clamped
zoomUnchanged_Unclamped(clampedZoom, nextZoom, currentZoom) ==
  RLt(RAbs(RSub(nextZoom, currentZoom)), ZoomEpsilon)

\* zoomAroundPoint's test for "nothing to do"
zoomUnchanged(clampedZoom, nextZoom, currentZoom) ==
  RLt(RAbs(RSub(clampedZoom, currentZoom)), ZoomEpsilon)

\* mutant of rawPanOf: the old pan is not scaled by the ratio
rawPanOf_PanNotScaled(point, ratio, currentPan) ==
  [x |-> RAdd(RSub(point.x, RMul(ratio, point.x)), currentPan.x),
   y |-> RAdd(RSub(point.y, RMul(ratio, point.y)), currentPan.y)]

\* the pan that keeps `point` fixed under the zoom ratio
rawPanOf(point, ratio, currentPan) ==
  [x |-> RSub(point.x, RMul(ratio, RSub(point.x, currentPan.x))),
   y |-> RSub(point.y, RMul(ratio, RSub(point.y, currentPan.y)))]

\* zoomAroundPoint(nextZoom, point): the new zoom and pan, and the value returned
zoomAroundPoint(z, p, cl, c, nextZoom, point) ==
  LET currentZoom == NumberOr(z, R(1))
      clampedZoom == clamp(nextZoom, minZoomOf(c), maxZoomOf(c))
  IN  IF zoomUnchanged(clampedZoom, nextZoom, currentZoom)
      THEN [zoom |-> z, pan |-> p, changed |-> FALSE]
      ELSE LET ratio == RDiv(clampedZoom, currentZoom)
               rawPan == rawPanOf(point, ratio, p)
               vp == getViewportSize(cl)
           IN  [zoom |-> clampedZoom,
                pan |-> clampPan(rawPan, clampedZoom, vp.width, vp.height, panPaddingOf(c)),
                changed |-> TRUE]

\* mutant of panDisabled: panning is disabled only below the native scale
panDisabled_Strict(z) == RLt(z, R(1))

\* panBy's test for "panning is disabled"
panDisabled(z) == RLe(z, R(1))

\* panBy(dx, dy)
panBy(z, p, cl, c, dx, dy) ==
  LET zm == NumberOr(z, R(1))
  IN  IF panDisabled(zm)
      THEN [zoom |-> z, pan |-> p, changed |-> FALSE]
      ELSE LET vp == getViewportSize(cl)
           IN  [zoom |-> z,
                pan |-> clampPan([x |-> RAdd(p.x, dx), y |-> RAdd(p.y, dy)],
                                 zm, vp.width, vp.height, panPaddingOf(c)),
                changed |-> TRUE]

(***************************************************************************)
(* Inputs of the pan/zoom model.                                           *)
(***************************************************************************)
NavConfigs ==
  { \* the scenario of the specification: minZoom 1, maxZoom 8, zoomStep 1.2
    [minZoom |-> R(1), maxZoom |-> R(8), zoomStep |-> Rat(6, 5),
     wheelZoomStep |-> Rat(1, 4), panPadding |-> R(0)],
    \* a map that starts zoomed in
    [minZoom |-> R(2), maxZoom |-> R(4), zoomStep |-> R(2),
     wheelZoomStep |-> R(1), panPadding |-> R(40)],
    \* a map that may shrink below its native scale
    [minZoom |-> Rat(1, 2), maxZoom |-> R(5), zoomStep |-> R(2),
     wheelZoomStep |-> R(1), panPadding |-> R(24)] }

ClientSizes == { [w |-> R(800), h |-> R(600)], [w |-> R(0), h |-> R(0)] }

ZoomTargets == { Rat(1, 4), R(1), Rat(6, 5), R(3), R(10) }

Points == { [x |-> R(0), y |-> R(0)], [x |-> R(400), y |-> R(300)],
            [x |-> R(800), y |-> R(600)] }

PanDeltas == { R(-1000), R(45), R(1000) }

\* svgEl.getBoundingClientRect(): where the map sits in the page
SvgRect == [left |-> R(10), top |-> R(20)]

\* clientX / clientY of wheel and pointer events
ClientPoints == { [x |-> R(410), y |-> R(320)], [x |-> R(412), y |-> R(321)],
                  [x |-> R(110), y |-> R(520)] }

PointerIds == { 1, 2 }

\* event.button: 0 is the primary button
Buttons == { 0, 2 }

(***************************************************************************)
(* Highlight state (createHighlightActions).                               *)
(*                                                                         *)
(* A JavaScript argument is a tagged value: a string, a number or null.    *)
(***************************************************************************)
Str(s) == [t |-> "string", v |-> s]

Num(n) == [t |-> "number", n |-> n]

JsNull == [t |-> "null"]

\* state.activeInitial = null
Null == "null"

\* String(initial || ""): null, 0 and "" are falsy
stringOrEmpty(x) ==
  IF x.t = "null" THEN ""
  ELSE IF x.t = "number" THEN (IF x.n = 0 THEN "" ELSE ToString(x.n))
  ELSE x.v

LowercaseLetters ==
  { "a", "b", "c", "d", "e", "f", "g", "h", "i", "j", "k", "l", "m",
    "n", "o", "p", "q", "r", "s", "t", "u", "v", "w", "x", "y", "z" }

\* the strings of the model that String.prototype.toLowerCase changes
LowerCaseOf ==
  [s \in { "A", "B", "C", "AB", "Ab" } |->
     CASE s = "A" -> "a" [] s = "B" -> "b" [] s = "C" -> "c" [] OTHER -> "ab"]

\* String.prototype.toLowerCase
toLowerCase(s) == IF s \in DOMAIN LowerCaseOf THEN LowerCaseOf[s] ELSE s

\* mutant of isSingleLowercaseLetter: the pattern is not anchored, /[a-z]/
isSingleLowercaseLetter_Unanchored(letter) ==
  letter \in LowercaseLetters \cup { "ab", "constructor" }

\* /^[a-z]$/.test(letter)
isSingleLowercaseLetter(letter) == letter \in LowercaseLetters

\* the keys every object literal inherits from Object.prototype (those of the model)
ObjectPrototypeKeys == { "constructor" }

\* state.initialColors[key] read as a condition: an own key with a non-empty color,
\* or an inherited key
hasColor(colors, key) ==
  IF key \in DOMAIN colors THEN colors[key] # "" ELSE key \in ObjectPrototypeKeys

\* initApp's palette: config.highlightPalette, or the single fill color
paletteOf(pc) ==
  IF Len(pc.highlightPalette) > 0 THEN pc.highlightPalette ELSE <<pc.highlightFillColor>>

\* mutant of nextColorOf: the cursor is advanced before the color is taken
nextColorOf_AfterAdvance(palette, cursor) == palette[((cursor + 1) % Len(palette)) + 1]

\* palette[state.colorCursor % palette.length] (sequences start at 1)
nextColorOf(palette, cursor) == palette[(cursor % Len(palette)) + 1]

\* the highlight part of the state object
HighlightState == [initialColors |-> initialColors, colorCursor |-> colorCursor,
                   activeInitial |-> activeInitial]

\* addInitial(initial): the new state and the value returned
addInitial(st, palette, initial) ==
  LET letter == toLowerCase(stringOrEmpty(initial))
  IN  IF ~isSingleLowercaseLetter(letter)
      THEN [state |-> st, changed |-> FALSE]
      ELSE IF hasColor(st.initialColors, letter)
      THEN [state |-> st, changed |-> FALSE]
      ELSE [state |->
              [initialColors |->
                 [k \in DOMAIN st.initialColors \cup {letter} |->
                    IF k = letter THEN nextColorOf(palette, st.colorCursor)
                    ELSE st.initialColors[k]],
               colorCursor |-> st.colorCursor + 1,
               activeInitial |-> letter],
            changed |-> TRUE]

\* mutant of removeInitial: the removed letter's palette slot is given back
removeInitial_RewindsCursor(st, initial) ==
  LET letter == toLowerCase(stringOrEmpty(initial))
  IN  IF ~hasColor(st.initialColors, letter)
      THEN [state |-> st, changed |-> FALSE]
      ELSE [state |->
              [initialColors |->
                 [k \in DOMAIN st.initialColors \ {letter} |-> st.initialColors[k]],
               colorCursor |-> IF st.colorCursor > 0 THEN st.colorCursor - 1 ELSE 0,
               activeInitial |->
                 IF st.activeInitial = letter THEN Null ELSE st.activeInitial],
            changed |-> TRUE]

\* mutant of removeInitial: the letter's color is blanked and its key kept
removeInitial_KeepsKey(st, initial) ==
  LET letter == toLowerCase(stringOrEmpty(initial))
  IN  IF ~hasColor(st.initialColors, letter)
      THEN [state |-> st, changed |-> FALSE]
      ELSE [state |->
              [initialColors |->
                 [k \in DOMAIN st.initialColors |->
                    IF k = letter THEN "" ELSE st.initialColors[k]],
               colorCursor |-> st.colorCursor,
               activeInitial |->
                 IF st.activeInitial = letter THEN Null ELSE st.activeInitial],
            changed |-> TRUE]

\* mutant of removeInitial: the active letter is forgotten whichever letter is removed
removeInitial_AlwaysClearsActive(st, initial) ==
  LET letter == toLowerCase(stringOrEmpty(initial))
  IN  IF ~hasColor(st.initialColors, letter)
      THEN [state |-> st, changed |-> FALSE]
      ELSE [state |->
              [initialColors |->
                 [k \in DOMAIN st.initialColors \ {letter} |-> st.initialColors[k]],
               colorCursor |-> st.colorCursor,
               activeInitial |-> Null],
            changed |-> TRUE]

\* removeInitial(initial)
removeInitial(st, initial) ==
  LET letter == toLowerCase(stringOrEmpty(initial))
  IN  IF ~hasColor(st.initialColors, letter)
      THEN [state |-> st, changed |-> FALSE]
      ELSE [state |->
              [initialColors |->
                 [k \in DOMAIN st.initialColors \ {letter} |-> st.initialColors[k]],
               colorCursor |-> st.colorCursor,
               activeInitial |->
                 IF st.activeInitial = letter THEN Null ELSE st.activeInitial],
            changed |-> TRUE]

\* toggleInitial(initial)
toggleInitial(st, palette, initial) ==
  LET letter == toLowerCase(stringOrEmpty(initial))
  IN  IF hasColor(st.initialColors, letter)
      THEN removeInitial(st, Str(letter))
      ELSE addInitial(st, palette, Str(letter))

EmptyColors == [k \in {} |-> ""]

\* mutant of clearHighlights: the state is reset whether or not a letter is highlighted
clearHighlights_NoGuard(st) ==
  [state |-> [initialColors |-> EmptyColors, colorCursor |-> 0, activeInitial |-> Null],
   changed |-> TRUE]

\* mutant of clearHighlights: the palette cursor is kept
clearHighlights_KeepsCursor(st) ==
  IF Cardinality(DOMAIN st.initialColors) = 0
  THEN [state |-> st, changed |-> FALSE]
  ELSE [state |-> [initialColors |-> EmptyColors, colorCursor |-> st.colorCursor,
                   activeInitial |-> Null],
        changed |-> TRUE]

\* clearHighlights()
clearHighlights(st) ==
  IF Cardinality(DOMAIN st.initialColors) = 0
  THEN [state |-> st, changed |-> FALSE]
  ELSE [state |-> [initialColors |-> EmptyColors, colorCursor |-> 0, activeInitial |-> Null],
        changed |-> TRUE]

PaletteConfigs ==
  { [highlightPalette |-> <<"red", "blue">>, highlightFillColor |-> "gold"],
    [highlightPalette |-> <<"red", "blue", "green">>, highlightFillColor |-> "gold"],
    [highlightPalette |-> <<>>, highlightFillColor |-> "gold"] }

HighlightInputs ==
  { Str("a"), Str("b"), Str("c"), Str("A"), Str("1"), Str(""), Str("ab"), Str("AB"),
    Str("constructor"), JsNull, Num(0), Num(7) }

NoHighlightCall == [op |-> "none"]

\* createMapState(): no letter is highlighted
InitHighlight ==
  /\ initialColors = EmptyColors
  /\ colorCursor = 0
  /\ activeInitial = Null
  /\ lastHighlightCall = NoHighlightCall
  /\ highlightLog = [onlyAdds |-> TRUE, addOrder |-> <<>>, removedColor |-> EmptyColors,
                     highlighted |-> {}]

(***************************************************************************)
(* Game round (setupGameMode).                                             *)
(*                                                                         *)
(* Scores, counts and seconds are integers; the time bonus per second is a *)
(* rational.  A country id or name is a string, and the functions on       *)
(* strings are tables over the strings of the model.                       *)
(***************************************************************************)
IMax(a, b) == IF a < b THEN b ELSE a

IMin(a, b) == IF b < a THEN b ELSE a

\* Number(v) || fallback, for an integer v
IntOr(v, fallback) == IF v = 0 THEN fallback ELSE v

\* Math.round of a non-negative rational: a half rounds up
mathRound(r) == (2 * r[1] + r[2]) \div (2 * r[2])

roundSecondsOf(c) == IMax(15, IntOr(c.gameRoundSeconds, 120))

maxTargetCountOf(c) == IMax(1, IntOr(c.gameTargetCount, 10))

correctScoreOf(c) == IMax(1, IntOr(c.gameCorrectScore, 10))

wrongPenaltyOf(c) == IMax(0, IntOr(c.gameWrongPenalty, 4))

streakBonusOf(c) == IMax(0, IntOr(c.gameStreakBonus, 2))

winTimeBonusPerSecondOf(c) == RMax(R(0), NumberOr(c.gameWinTimeBonusPerSecond, R(1)))

\* the ids of the model that String.prototype.padStart(3, "0") changes
PaddedIdOf == [s \in { "4", "76" } |-> IF s = "4" THEN "004" ELSE "076"]

\* normalizeCountryId(countryId): an all-digit id is padded to three digits
normalizeCountryId(countryId) ==
  IF countryId \in DOMAIN PaddedIdOf THEN PaddedIdOf[countryId] ELSE countryId

\* the first character, lowercased, of each country name of the model
InitialOf ==
  [n \in { "Chad", "Chile", "China", "Brazil", "Austria", "Åland", "Kosovo", "" } |->
     CASE n \in { "Chad", "Chile", "China" } -> "c"
       [] n = "Brazil" -> "b"
       [] n = "Kosovo" -> "k"
       [] n = "Austria" -> "a"
       [] n = "Åland" -> "å"
       [] OTHER -> ""]

\* getCountryInitial(countryName)
getCountryInitial(countryName) == InitialOf[countryName]

\* collectCountryCatalog(): the Map byId after the first n paths, as a function from
\* the normalized id to the country; a later path replaces an earlier one of the same id
RECURSIVE catalogOfFirst(_, _)
catalogOfFirst(paths, n) ==
  IF n = 0 THEN [k \in {} |-> [id |-> "", name |-> "", initial |-> ""]]
  ELSE LET byId == catalogOfFirst(paths, n - 1)
           id == normalizeCountryId(paths[n].id)
           name == paths[n].name
           initial == getCountryInitial(name)
       IN  IF id = "" \/ name = "" \/ ~isSingleLowercaseLetter(initial)
           THEN byId
           ELSE [k \in DOMAIN byId \cup {id} |->
                   IF k = id THEN [id |-> id, name |-> name, initial |-> initial]
                   ELSE byId[k]]

collectCountryCatalog(paths) == catalogOfFirst(paths, Len(paths))

\* pickTargetRound's letterBuckets: each initial with the ids of its countries
letterBucketsOf(catalog) ==
  [l \in { catalog[k].initial : k \in DOMAIN catalog } |->
     { k \in DOMAIN catalog : catalog[k].initial = l }]

\* pickTargetRound's pool: every entry of letterBuckets; the sort by bucket size orders
\* the entries and removes none
poolOf(letterBuckets) == DOMAIN letterBuckets

\* mutant of requiredCountOf: the bucket size is not taken into account
requiredCountOf_IgnoresBucket(maxTargetCount, bucketSize) == maxTargetCount

\* Math.min(maxTargetCount, countries.length)
requiredCountOf(maxTargetCount, bucketSize) == IMin(maxTargetCount, bucketSize)

\* pickTargetRound() returns null: no country is eligible
NoRound == [targetLetter |-> Null]

\* pickTargetRound(), for the entry of the pool that Math.random selects
pickTargetRound(paths, c, targetLetter) ==
  LET letterBuckets == letterBucketsOf(collectCountryCatalog(paths))
  IN  [targetLetter |-> targetLetter,
       countries |-> letterBuckets[targetLetter],
       requiredCount |->
         requiredCountOf(maxTargetCountOf(c), Cardinality(letterBuckets[targetLetter]))]

\* the game part of the state object
GameState ==
  [gameActive |-> gameActive, gameStatus |-> gameStatus,
   gameTargetLetter |-> gameTargetLetter, gameRequiredCount |-> gameRequiredCount,
   gameTargetCountryIds |-> gameTargetCountryIds,
   gameFoundCountryIds |-> gameFoundCountryIds, gameScore |-> gameScore,
   gameStreak |-> gameStreak, gameBestStreak |-> gameBestStreak,
   gameBestScore |-> gameBestScore, gameFoundCount |-> gameFoundCount,
   gameTimeRemaining |-> gameTimeRemaining, gameMessage |-> gameMessage]

\* syncUi(): the disabled flags of the Start and the Stop buttons
syncUi(g) ==
  [start |-> g.gameActive, stop |-> ~(g.gameActive \/ g.gameStatus # "idle")]

\* mutant of resetRoundState: the round stays active
resetRoundState_KeepsActive(g, c, message) ==
  [g EXCEPT !.gameStatus = "idle", !.gameTargetLetter = Null,
            !.gameRequiredCount = 0, !.gameTargetCountryIds = {},
            !.gameFoundCountryIds = {}, !.gameScore = 0, !.gameStreak = 0,
            !.gameBestStreak = 0, !.gameFoundCount = 0,
            !.gameTimeRemaining = roundSecondsOf(c), !.gameMessage = message]

\* resetRoundState(message)
resetRoundState(g, c, message) ==
  [g EXCEPT !.gameActive = FALSE, !.gameStatus = "idle", !.gameTargetLetter = Null,
            !.gameRequiredCount = 0, !.gameTargetCountryIds = {},
            !.gameFoundCountryIds = {}, !.gameScore = 0, !.gameStreak = 0,
            !.gameBestStreak = 0, !.gameFoundCount = 0,
            !.gameTimeRemaining = roundSecondsOf(c), !.gameMessage = message]

\* startRound(): the assignments to the state for the round that was picked
startRoundState(g, c, round) ==
  IF round = NoRound
  THEN resetRoundState(g, c, "no countries")
  ELSE [g EXCEPT !.gameActive = TRUE, !.gameStatus = "running",
                 !.gameTargetLetter = round.targetLetter,
                 !.gameRequiredCount = round.requiredCount,
                 !.gameTargetCountryIds = round.countries,
                 !.gameFoundCountryIds = {}, !.gameScore = 0, !.gameStreak = 0,
                 !.gameBestStreak = 0, !.gameFoundCount = 0,
                 !.gameTimeRemaining = roundSecondsOf(c), !.gameMessage = "started"]

\* resetRound()'s hadRoundState
hadRoundState(g) ==
  \/ g.gameActive
  \/ g.gameStatus # "idle"
  \/ Cardinality(g.gameFoundCountryIds) > 0
  \/ g.gameScore > 0

\* mutant of updateBestScore: the best score follows the current score
updateBestScore_Always(g, stored, fails) ==
  [game |-> [g EXCEPT !.gameBestScore = IMax(0, g.gameScore)],
   storedBest |-> IF fails THEN stored ELSE IMax(0, g.gameScore)]

\* updateBestScore(): the state and the stored best score afterwards
updateBestScore(g, stored, fails) ==
  LET currentScore == IMax(0, g.gameScore)
      previousBest == IMax(0, g.gameBestScore)
  IN  IF currentScore <= previousBest
      THEN [game |-> g, storedBest |-> stored]
      ELSE [game |-> [g EXCEPT !.gameBestScore = currentScore],
            storedBest |-> IF fails THEN stored ELSE currentScore]

\* mutant of isTargetCountry: every country with an id counts as a target
isTargetCountry_AnyCountry(targetIds, countryId) == countryId # ""

\* countryId && state.gameTargetCountryIds[countryId]
isTargetCountry(targetIds, countryId) == countryId # "" /\ countryId \in targetIds

\* mutant of wrongGuessScore: the score is not floored at 0
wrongGuessScore_NoFloor(score, penalty) == score - penalty

\* Math.max(0, state.gameScore - wrongPenalty)
\* mutant of wrongGuessScore: the penalty is added
wrongGuessScore_PenaltyAdded(score, penalty) == IMax(0, score + penalty)

wrongGuessScore(score, penalty) == IMax(0, score - penalty)

\* mutant of isAlreadyFound: a found country is counted again
isAlreadyFound_Never(foundIds, countryId) == FALSE

\* state.gameFoundCountryIds[countryId]
isAlreadyFound(foundIds, countryId) == countryId \in foundIds

\* mutant of pointsFor: the bonus is paid for the first guess of a streak as well
pointsFor_BonusFromFirst(correct, streak, bonus) == correct + streak * bonus

\* correctScore + Math.max(0, state.gameStreak - 1) * streakBonus
pointsFor(correct, streak, bonus) == correct + IMax(0, streak - 1) * bonus

\* mutant of timeBonusOf: the product is truncated, not rounded
timeBonusOf_Truncated(timeRemaining, c) ==
  LET product == RMul(R(IMax(0, timeRemaining)), winTimeBonusPerSecondOf(c))
  IN  product[1] \div product[2]

\* Math.round(Math.max(0, state.gameTimeRemaining) * winTimeBonusPerSecond)
timeBonusOf(timeRemaining, c) ==
  mathRound(RMul(R(IMax(0, timeRemaining)), winTimeBonusPerSecondOf(c)))

\* mutant of isRoundActive: a round counts as active for as long as it has targets
isRoundActive_WhileTargets(g) == g.gameTargetCountryIds # {}

\* state.gameActive, read as the guard of a guess
isRoundActive(g) == g.gameActive

\* processCountryGuess({ countryId, countryName }): the state and the stored best score
\* afterwards, whether the timer is stopped, whether a render is requested and whether
\* syncUi() is called
\* mutant of roundComplete: the round is won one country late
roundComplete_OneMore(foundCount, requiredCount) == foundCount > requiredCount

\* state.gameFoundCount >= state.gameRequiredCount
roundComplete(foundCount, requiredCount) == foundCount >= requiredCount

processCountryGuess(g, c, stored, fails, countryId) ==
  IF ~isRoundActive(g)
  THEN [game |-> g, storedBest |-> stored, stopTimer |-> FALSE, render |-> FALSE,
        syncUi |-> FALSE]
  ELSE IF ~isTargetCountry(g.gameTargetCountryIds, countryId)
  THEN [game |-> [g EXCEPT !.gameStreak = 0,
                           !.gameScore = wrongGuessScore(g.gameScore, wrongPenaltyOf(c)),
                           !.gameMessage = "wrong"],
        storedBest |-> stored, stopTimer |-> FALSE, render |-> TRUE, syncUi |-> FALSE]
  ELSE IF isAlreadyFound(g.gameFoundCountryIds, countryId)
  THEN [game |-> [g EXCEPT !.gameMessage = "already counted"],
        storedBest |-> stored, stopTimer |-> FALSE, render |-> FALSE, syncUi |-> TRUE]
  ELSE LET streak == g.gameStreak + 1
           points == pointsFor(correctScoreOf(c), streak, streakBonusOf(c))
           counted ==
             updateBestScore(
               [g EXCEPT !.gameFoundCountryIds = g.gameFoundCountryIds \cup {countryId},
                         !.gameFoundCount = g.gameFoundCount + 1,
                         !.gameStreak = streak,
                         !.gameBestStreak = IMax(g.gameBestStreak, streak),
                         !.gameScore = g.gameScore + points],
               stored, fails)
           scored == [counted.game EXCEPT !.gameMessage = "correct"]
           timeBonus == timeBonusOf(scored.gameTimeRemaining, c)
           won == updateBestScore([scored EXCEPT !.gameScore = scored.gameScore + timeBonus],
                                  counted.storedBest, fails)
       IN  IF roundComplete(scored.gameFoundCount, scored.gameRequiredCount)
           THEN [game |-> [won.game EXCEPT !.gameActive = FALSE, !.gameStatus = "won",
                                           !.gameMessage = "won"],
                 storedBest |-> won.storedBest, stopTimer |-> TRUE, render |-> TRUE,
                 syncUi |-> FALSE]
           ELSE [game |-> scored, storedBest |-> counted.storedBest,
                 stopTimer |-> FALSE, render |-> TRUE, syncUi |-> FALSE]

\* mutant of intervalTick: the streak survives the end of the time
intervalTick_KeepsStreak(g) ==
  LET nextTime == IMax(0, g.gameTimeRemaining - 1)
  IN  IF nextTime <= 0
      THEN [game |-> [g EXCEPT !.gameTimeRemaining = nextTime, !.gameActive = FALSE,
                               !.gameStatus = "lost", !.gameMessage = "lost"],
            ended |-> TRUE]
      ELSE [game |-> [g EXCEPT !.gameTimeRemaining = nextTime], ended |-> FALSE]

\* mutant of intervalTick: when the time is up the round goes back to idle
intervalTick_IdleAtZero(g) ==
  LET nextTime == IMax(0, g.gameTimeRemaining - 1)
  IN  IF nextTime <= 0
      THEN [game |-> [g EXCEPT !.gameTimeRemaining = nextTime, !.gameActive = FALSE,
                               !.gameStatus = "idle", !.gameStreak = 0,
                               !.gameMessage = "lost"],
            ended |-> TRUE]
      ELSE [game |-> [g EXCEPT !.gameTimeRemaining = nextTime], ended |-> FALSE]

\* mutant of intervalTick: the countdown stops at one second
intervalTick_StopsAtOne(g) ==
  LET nextTime == IMax(1, g.gameTimeRemaining - 1)
  IN  IF nextTime <= 0
      THEN [game |-> [g EXCEPT !.gameTimeRemaining = nextTime, !.gameActive = FALSE,
                               !.gameStatus = "lost", !.gameStreak = 0,
                               !.gameMessage = "lost"],
            ended |-> TRUE]
      ELSE [game |-> [g EXCEPT !.gameTimeRemaining = nextTime], ended |-> FALSE]

\* the interval callback of startRound while the round is active: the state afterwards
\* and whether the round has ended (the timer is stopped and a render requested)
intervalTick(g) ==
  LET nextTime == IMax(0, g.gameTimeRemaining - 1)
  IN  IF nextTime <= 0
      THEN [game |-> [g EXCEPT !.gameTimeRemaining = nextTime, !.gameActive = FALSE,
                               !.gameStatus = "lost", !.gameStreak = 0,
                               !.gameMessage = "lost"],
            ended |-> TRUE]
      ELSE [game |-> [g EXCEPT !.gameTimeRemaining = nextTime], ended |-> FALSE]

\* mutant of stopTimer: timerId is forgotten and the interval is not cleared
stopTimer_KeepsInterval(scheduled, id) == scheduled

\* stopTimer(): the scheduled intervals afterwards
stopTimer(scheduled, id) == IF id # 0 THEN scheduled \ {id} ELSE scheduled

GameConfigs ==
  { [gameRoundSeconds |-> 15, gameTargetCount |-> 3, gameCorrectScore |-> 10,
     gameWrongPenalty |-> 4, gameStreakBonus |-> 2, gameWinTimeBonusPerSecond |-> R(1)],
    [gameRoundSeconds |-> 5, gameTargetCount |-> 2, gameCorrectScore |-> 3,
     gameWrongPenalty |-> 0, gameStreakBonus |-> -1,
     gameWinTimeBonusPerSecond |-> Rat(1, 2)] }

\* a map of one country with a name and one without
SmallMap == << [id |-> "76", name |-> "Brazil"], [id |-> "country-1", name |-> ""] >>

\* the countries drawn on the map: one letter with three countries, one with one, and a
\* country whose initial is not a-z; one letter only; no eligible country
\* the features of three maps; the second feature of the second map has no id
MapCountrySets ==
  { << [id |-> "148", name |-> "Chad"], [id |-> "152", name |-> "Chile"],
       [id |-> "156", name |-> "China"], [id |-> "4", name |-> "Austria"],
       [id |-> "248", name |-> "Åland"] >>,
    << [id |-> "76", name |-> "Brazil"], [id |-> Null, name |-> ""] >>,
    << [id |-> "248", name |-> "Åland"] >> }

\* the data-country-id and data-country-name attributes renderWorldOutline gives the
\* paths of the countries: the id is String(d.id ?? `country-${i}`), i from 0
countryPathsOf(countries) ==
  [i \in 1..Len(countries) |->
     [id |-> IF countries[i].id = Null THEN "country-" \o ToString(i - 1)
             ELSE countries[i].id,
      name |-> countries[i].name]]

CountryPathSets == { countryPathsOf(countries) : countries \in MapCountrySets }

\* the renderer's normalizeCountryId(d?.id)
featureCountryId(d) == IF d.id = Null THEN "" ELSE normalizeCountryId(d.id)

StringOr(s, fallback) == IF s = "" THEN fallback ELSE s

\* the fill, stroke and stroke-width renderWorldOutline gives the path of country d
countryStyle(d, found, colors, c) ==
  LET countryId == featureCountryId(d)
      isFound == countryId # "" /\ countryId \in found
      initial == getCountryInitial(d.name)
      color == IF initial \in DOMAIN colors THEN colors[initial] ELSE ""
  IN  [fill |-> IF isFound THEN StringOr(c.gameFoundFillColor, "#37b24d")
                ELSE StringOr(color, "url(#land-gradient)"),
       stroke |-> IF isFound THEN StringOr(c.gameFoundStrokeColor, "#1f7a34") ELSE "none",
       strokeWidth |-> IF ~isFound THEN R(0)
                       ELSE IF c.gameFoundStrokeWidth = <<>> THEN Rat(1, 2)
                       ELSE c.gameFoundStrokeWidth]

\* what renderWorldOutline read: the zoom and pan of the map group's transform, the
\* found set and the colors, and the style it gave each country path
renderWorldOutline(z, p, countries, found, colors, c) ==
  [transform |-> [zoom |-> z, pan |-> p], found |-> found, initialColors |-> colors,
   styles |-> [i \in 1..Len(countries) |-> countryStyle(countries[i], found, colors, c)]]

\* a config without the three found-style settings, and one with them (a missing
\* stroke width is <<>>)
DefaultFillConfig ==
  [gameFoundFillColor |-> "", gameFoundStrokeColor |-> "", gameFoundStrokeWidth |-> <<>>]

FillConfigs ==
  { DefaultFillConfig,
    [gameFoundFillColor |-> "#2f9e44", gameFoundStrokeColor |-> "#2b8a3e",
     gameFoundStrokeWidth |-> R(1)] }

StoredBestScores == { 0, 20 }

NoGameCall == [op |-> "none"]

\* the function setupMobileControls returns, which renderNow calls: the disabled
\* flags it gives the letter chips and the mobile Clear button
syncMobileControls(colors, active) ==
  [letters |-> active, clear |-> active \/ Cardinality(DOMAIN colors) = 0]

\* createMapState() and setupGameMode(): the round is idle, no timer runs, and the best
\* score is the stored one
\* setupGameMode on the map the first renderNow has drawn
InitRound ==
  /\ countryPaths = countryPathsOf(mapCountries)
  /\ lastRender = renderWorldOutline(zoom, pan, mapCountries, {}, EmptyColors, fillConfig)
  /\ gameActive = FALSE
  /\ gameStatus = "idle"
  /\ gameTargetLetter = Null
  /\ gameRequiredCount = 0
  /\ gameTargetCountryIds = {}
  /\ gameFoundCountryIds = {}
  /\ gameScore = 0
  /\ gameStreak = 0
  /\ gameBestStreak = 0
  /\ gameBestScore = (IF ~storageFails /\ storedBest > 0 THEN IMax(0, storedBest) ELSE 0)
  /\ gameFoundCount = 0
  /\ gameTimeRemaining = roundSecondsOf(gameConfig)
  /\ gameMessage = ""
  /\ timerId = 0
  /\ intervals = {}
  /\ intervalCount = 0
  /\ lastGameCall = NoGameCall
  /\ gameButtons = syncUi(GameState)
  /\ mobileButtons = syncMobileControls(initialColors, gameActive)
  /\ gameLog = [correctRun |-> 0, awards |-> <<>>, ticks |-> 0]

InitGame ==
  /\ gameConfig \in GameConfigs
  /\ mapCountries \in MapCountrySets
  /\ fillConfig = DefaultFillConfig
  /\ storedBest \in StoredBestScores
  /\ storageFails \in BOOLEAN
  /\ InitRound

\* the game as it is when the map or the highlight is exercised on its own
InitGameIdle ==
  /\ InitGame
  /\ gameConfig = [gameRoundSeconds |-> 15, gameTargetCount |-> 3, gameCorrectScore |-> 10,
                   gameWrongPenalty |-> 4, gameStreakBonus |-> 2,
                   gameWinTimeBonusPerSecond |-> R(1)]
  /\ countryPaths = SmallMap
  /\ storedBest = 0
  /\ storageFails = FALSE

(***************************************************************************)
(* Geometry cache (mapRenderer.js).                                        *)
(*                                                                         *)
(* A topology is [ref, objects]: ref stands for the identity of the object *)
(* and objects for Object.keys(topology.objects), in order.  The computed  *)
(* data is represented by the inputs it was computed from.                 *)
(***************************************************************************)
\* Array.prototype.join(sep) on an array of strings
RECURSIVE joinWith(_, _)
joinWith(list, sep) ==
  IF Len(list) = 0 THEN ""
  ELSE IF Len(list) = 1 THEN list[1]
  ELSE list[1] \o sep \o joinWith(Tail(list), sep)

\* buildGeometryConfigKey(config)
buildGeometryConfigKey(config) ==
  joinWith(<<config.projection, ToString(config.fitPadding),
             joinWith(config.excludedCountryIds, ","),
             joinWith(config.excludedCountryNames, ",")>>, "|")

\* mutant of resolveCountryObject: the first object is taken, whatever its name
resolveCountryObject_FirstKey(topology) ==
  IF Len(topology.objects) = 0 THEN "" ELSE topology.objects[1]

\* resolveCountryObject(topology): the key of the object used, or "" when it throws
resolveCountryObject(topology) ==
  LET keys == { topology.objects[i] : i \in 1..Len(topology.objects) }
  IN  IF "countries" \in keys THEN "countries"
      ELSE IF "land" \in keys THEN "land"
      ELSE IF Len(topology.objects) = 0 THEN ""
      ELSE topology.objects[1]

NoGeometryConfig ==
  [projection |-> "", fitPadding |-> 0, excludedCountryIds |-> <<>>,
   excludedCountryNames |-> <<>>]

\* geometryCache.data = null
NoGeometryData ==
  [topologyObject |-> "", topoRef |-> 0, width |-> R(0), height |-> R(0),
   config |-> NoGeometryConfig]

\* the geometryCache of a module that has computed nothing
EmptyGeometryCache ==
  [topoRef |-> 0, width |-> R(0), height |-> R(0), configKey |-> "",
   data |-> NoGeometryData]

\* mutant of geometryChanged: the height is not compared
geometryChanged_IgnoresHeight(cache, topoJson, width, height, configKey) ==
  \/ cache.topoRef # topoJson.ref
  \/ cache.width # width
  \/ cache.configKey # configKey

\* getGeometryState's geometryChanged
geometryChanged(cache, topoJson, width, height, configKey) ==
  \/ cache.topoRef # topoJson.ref
  \/ cache.width # width
  \/ cache.height # height
  \/ cache.configKey # configKey

\* getGeometryState({ topoJson, width, height, config }): the cache afterwards, what is
\* returned (or thrown) and whether the geometry was computed
getGeometryState(cache, topoJson, width, height, config) ==
  LET configKey == buildGeometryConfigKey(config)
      changed == geometryChanged(cache, topoJson, width, height, configKey)
      topologyObject == resolveCountryObject(topoJson)
      data == [topologyObject |-> topologyObject, topoRef |-> topoJson.ref,
               width |-> width, height |-> height, config |-> config]
  IN  IF ~changed /\ cache.data # NoGeometryData
      THEN [cache |-> cache, computed |-> FALSE,
            returned |-> [thrown |-> FALSE, data |-> cache.data, geometryChanged |-> FALSE]]
      ELSE IF topologyObject = ""
      THEN [cache |-> cache, computed |-> TRUE,
            returned |-> [thrown |-> TRUE, data |-> NoGeometryData,
                          geometryChanged |-> FALSE]]
      ELSE [cache |-> [topoRef |-> topoJson.ref, width |-> width, height |-> height,
                       configKey |-> configKey, data |-> data],
            computed |-> TRUE,
            returned |-> [thrown |-> FALSE, data |-> data, geometryChanged |-> TRUE]]

\* the topology and the configuration the application renders with
AppTopology == [ref |-> 1, objects |-> <<"countries", "land">>]

AppGeometryConfig ==
  [projection |-> "geoNaturalEarth1", fitPadding |-> 8, excludedCountryIds |-> <<"010">>,
   excludedCountryNames |-> <<>>]

\* renderWorldOutline's width and height of the map element
renderWidth(cl) == RMax(R(320), cl.w)

renderHeight(cl) == RMax(R(200), cl.h)

\* the geometryCache after renderWorldOutline has run for a map element of size cl
renderedGeometry(cache, cl) ==
  getGeometryState(cache, AppTopology, renderWidth(cl), renderHeight(cl),
                   AppGeometryConfig).cache

NoGeometryCall == [op |-> "none"]

(***************************************************************************)
(* Layer groups (ensureLayers).  The svg paints its children in document   *)
(* order, so a later child lies above an earlier one.                      *)
(***************************************************************************)
\* an svg without any group
EmptyLayers == [map |-> <<>>, overlay |-> <<>>]

\* mutant of ensureChild: a group is appended also when the parent has one
ensureChild_AlwaysAppends(children, name) == Append(children, name)

\* parent.selectAll("g[data-layer='name']").data([null]).join("g"): the group of that
\* name is kept where it is, and appended as the last child when there is none
ensureChild(children, name) ==
  IF \E i \in 1..Len(children) : children[i] = name THEN children
  ELSE Append(children, name)

RECURSIVE ensureChildren(_, _)
ensureChildren(children, names) ==
  IF names = <<>> THEN children
  ELSE ensureChildren(ensureChild(children, Head(names)), Tail(names))

\* ensureLayers(svgSelection), in the order of its statements
ensureLayers(dom) ==
  [map |-> ensureChildren(dom.map, <<"background", "countries", "linework", "overlay">>),
   overlay |-> ensureChildren(dom.overlay,
                              <<"population-circles", "leader-badges", "labels",
                                "capitals">>)]

\* the layers from back to front: the children of the map group in document order,
\* the overlay group standing for its own children
RECURSIVE stackOf(_, _)
stackOf(children, overlay) ==
  IF children = <<>> THEN <<>>
  ELSE (IF Head(children) = "overlay" THEN overlay ELSE <<Head(children)>>)
       \o stackOf(Tail(children), overlay)

layerStack(dom) == stackOf(dom.map, dom.overlay)

(***************************************************************************)
(* The state after initApp: createMapState(), setupMapNavigation's initial *)
(* clamp of the zoom, and the first renderNow().                           *)
(***************************************************************************)
\* updateZoomUi(): the disabled flags of the three zoom buttons
updateZoomUi(z, p, c) ==
  LET zm == NumberOr(z, R(1))
      small == Rat(1, 1000)
  IN  [zoomIn |-> RLe(maxZoomOf(c), zm),
       zoomOut |-> RLe(zm, minZoomOf(c)),
       zoomReset |-> /\ RLt(RAbs(RSub(zm, R(1))), small)
                     /\ RLt(RAbs(p.x), small)
                     /\ RLt(RAbs(p.y), small)]

\* no press of the pointer is being followed
NoPress == [tracked |-> FALSE, crossed |-> FALSE, start |-> Origin]

NoPointerEvent == [op |-> "none"]

NoClick == [op |-> "none"]

InitController ==
  /\ navConfig \in NavConfigs
  /\ zoom = clamp(NumberOr(R(1), R(1)), minZoomOf(navConfig), maxZoomOf(navConfig))
  /\ pan = Origin
  /\ dragState = NoDrag
  /\ pointerLog = [press |-> [id \in PointerIds |-> NoPress], last |-> NoPointerEvent]
  /\ popup = ""
  /\ lastClick = NoClick
  /\ suppressCountryClickUntil = 0
  /\ now = 0
  /\ renderFrameId = NoFrame
  /\ zoomButtons = updateZoomUi(zoom, pan, navConfig)
  /\ lastCall = NoCall
  /\ steps = 0

\* initApp has run: the controller is set up and renderNow has drawn the map once
InitView ==
  /\ InitController
  /\ layers = ensureLayers(EmptyLayers)
  /\ geometryCache = renderedGeometry(EmptyGeometryCache, client)
  /\ lastGeometryCall = NoGeometryCall

(***************************************************************************)
(* The controller driven through its two operations, at a fixed viewport.  *)
(***************************************************************************)
zoomCallRecord(nextZoom, point, r) ==
  [name |-> "zoomAroundPoint", nextZoom |-> nextZoom, point |-> point,
   changed |-> r.changed, zoomBefore |-> zoom, panBefore |-> pan,
   repeats |-> /\ lastCall.name = "zoomAroundPoint"
               /\ lastCall.nextZoom = nextZoom
               /\ lastCall.point = point,
   firstChanged |-> lastCall.name = "zoomAroundPoint" /\ lastCall.changed]

panCallRecord(dx, dy, r) ==
  [name |-> "panBy", dx |-> dx, dy |-> dy,
   changed |-> r.changed, zoomBefore |-> zoom, panBefore |-> pan]

ZoomAroundPointCall(nextZoom, point) ==
  /\ steps < MaxSteps
  /\ LET r == zoomAroundPoint(zoom, pan, client, navConfig, nextZoom, point)
     IN  /\ zoom' = r.zoom
         /\ pan' = r.pan
         /\ lastCall' = zoomCallRecord(nextZoom, point, r)
  /\ steps' = steps + 1
  /\ UNCHANGED <<client, navConfig, gestureVars, now, renderFrameId, zoomButtons>>
  /\ UNCHANGED nonNavVars

PanByCall(dx, dy) ==
  /\ steps < MaxSteps
  /\ LET r == panBy(zoom, pan, client, navConfig, dx, dy)
     IN  /\ zoom' = r.zoom
         /\ pan' = r.pan
         /\ lastCall' = panCallRecord(dx, dy, r)
  /\ steps' = steps + 1
  /\ UNCHANGED <<client, navConfig, gestureVars, now, renderFrameId, zoomButtons>>
  /\ UNCHANGED nonNavVars

InitNavApi ==
  /\ client \in ClientSizes
  /\ InitView
  /\ paletteConfig = [highlightPalette |-> <<"red", "blue">>, highlightFillColor |-> "gold"]
  /\ InitHighlight
  /\ InitGameIdle

NextNavApi ==
  \/ \E nextZoom \in ZoomTargets, point \in Points : ZoomAroundPointCall(nextZoom, point)
  \/ \E dx \in PanDeltas, dy \in PanDeltas : PanByCall(dx, dy)

SpecNavApi == InitNavApi /\ [][NextNavApi]_vars

(***************************************************************************)
(* The event handlers of setupMapNavigation and initApp.                   *)
(***************************************************************************)
\* mutant of render: a frame is requested whether or not one is requested already
render_NoToken(frame) ==
  [frame EXCEPT !.id = TRUE, !.callbacks = @ + 1, !.requests = @ + 1]

\* render(): request an animation frame unless one is requested already
\* mutant of animationFrame: the token is still set when renderNow runs
animationFrame_KeepsToken(frame) ==
  [id |-> TRUE, callbacks |-> frame.callbacks - 1, requests |-> 0,
   served |-> frame.requests]

\* the requestAnimationFrame callback: renderFrameId = null, then renderNow()
animationFrame(frame) ==
  [id |-> FALSE, callbacks |-> frame.callbacks - 1, requests |-> 0,
   served |-> frame.requests]

render(frame) ==
  IF frame.id
  THEN [frame EXCEPT !.requests = @ + 1]
  ELSE [frame EXCEPT !.id = TRUE, !.callbacks = @ + 1, !.requests = @ + 1]

\* getSvgPoint(svgEl, clientX, clientY)
getSvgPoint(cp) == [x |-> RSub(cp.x, SvgRect.left), y |-> RSub(cp.y, SvgRect.top)]

\* zoomByFactor(factor, point): zoomAroundPoint, and a render if it changed anything
ZoomByFactor(factor, point) ==
  LET r == zoomAroundPoint(zoom, pan, client, navConfig,
                           RMul(NumberOr(zoom, R(1)), factor), point)
  IN  /\ zoom' = r.zoom
      /\ pan' = r.pan
      /\ lastCall' = zoomCallRecord(RMul(NumberOr(zoom, R(1)), factor), point, r)
      /\ renderFrameId' = IF r.changed THEN render(renderFrameId) ELSE renderFrameId

viewportCentre ==
  LET vp == getViewportSize(client)
  IN  [x |-> RDiv(vp.width, R(2)), y |-> RDiv(vp.height, R(2))]

\* zoomInBtn click
ZoomInClick ==
  /\ steps < MaxEvents
  /\ ~zoomButtons.zoomIn
  /\ ZoomByFactor(zoomStepOf(navConfig), viewportCentre)
  /\ steps' = steps + 1
  /\ UNCHANGED <<client, navConfig, gestureVars, now, zoomButtons>>
  /\ UNCHANGED nonNavVars

\* zoomOutBtn click
ZoomOutClick ==
  /\ steps < MaxEvents
  /\ ~zoomButtons.zoomOut
  /\ ZoomByFactor(RDiv(R(1), zoomStepOf(navConfig)), viewportCentre)
  /\ steps' = steps + 1
  /\ UNCHANGED <<client, navConfig, gestureVars, now, zoomButtons>>
  /\ UNCHANGED nonNavVars

\* zoomResetBtn click
ZoomResetClick ==
  /\ steps < MaxEvents
  /\ ~zoomButtons.zoomReset
  /\ zoom' = R(1)
  /\ pan' = Origin
  /\ renderFrameId' = render(renderFrameId)
  /\ steps' = steps + 1
  /\ UNCHANGED <<client, navConfig, gestureVars, now, zoomButtons, lastCall>>
  /\ UNCHANGED nonNavVars

\* wheel on the map
Wheel(cp, deltaYNegative) ==
  /\ steps < MaxEvents
  /\ LET step == wheelZoomStepOf(navConfig)
         factor == IF deltaYNegative THEN RAdd(R(1), step) ELSE RDiv(R(1), RAdd(R(1), step))
     IN  ZoomByFactor(factor, getSvgPoint(cp))
  /\ steps' = steps + 1
  /\ UNCHANGED <<client, navConfig, gestureVars, now, zoomButtons>>
  /\ UNCHANGED nonNavVars

\* pointerdown on the map
PointerDown(id, cp, button) ==
  /\ steps < MaxEvents
  /\ dragState' =
       IF RLe(NumberOr(zoom, R(1)), R(1)) \/ button # 0
       THEN dragState
       ELSE [pointerId |-> id, startX |-> cp.x, startY |-> cp.y,
             lastX |-> cp.x, lastY |-> cp.y, dragging |-> FALSE, moved |-> FALSE]
  /\ pointerLog' =
       IF RLe(NumberOr(zoom, R(1)), R(1)) \/ button # 0
       THEN [pointerLog EXCEPT !.last = [op |-> "down", id |-> id, accepted |-> FALSE]]
       ELSE [press |-> [pointerLog.press EXCEPT
                          ![id] = [tracked |-> TRUE, crossed |-> FALSE,
                                   start |-> [x |-> cp.x, y |-> cp.y]]],
             last |-> [op |-> "down", id |-> id, accepted |-> TRUE]]
  /\ steps' = steps + 1
  /\ UNCHANGED <<viewVars, client, navConfig, suppressCountryClickUntil, now,
                 renderFrameId, zoomButtons, lastCall>>
  /\ UNCHANGED nonNavVars

\* the movement that turns a press into a drag
dragThresholdExceeded(totalDx, totalDy) ==
  RLt(R(3), RAdd(RAbs(totalDx), RAbs(totalDy)))

\* pointermove on the map
PointerMove(id, cp) ==
  /\ steps < MaxEvents
  /\ IF dragState = NoDrag \/ dragState.pointerId # id
     THEN UNCHANGED <<viewVars, dragState, renderFrameId, lastCall>>
     ELSE LET totalDx == RSub(cp.x, dragState.startX)
              totalDy == RSub(cp.y, dragState.startY)
              starts == ~dragState.dragging /\ dragThresholdExceeded(totalDx, totalDy)
              dragging == dragState.dragging \/ starts
          IN  IF ~dragging
              THEN UNCHANGED <<viewVars, dragState, renderFrameId, lastCall>>
              ELSE LET dx == RSub(cp.x, dragState.lastX)
                       dy == RSub(cp.y, dragState.lastY)
                       r == panBy(zoom, pan, client, navConfig, dx, dy)
                   IN  /\ dragState' = [dragState EXCEPT !.dragging = TRUE,
                                          !.moved = dragState.moved \/ starts,
                                          !.lastX = cp.x, !.lastY = cp.y]
                       /\ zoom' = r.zoom
                       /\ pan' = r.pan
                       /\ lastCall' = panCallRecord(dx, dy, r)
                       /\ renderFrameId' =
                            IF r.changed THEN render(renderFrameId) ELSE renderFrameId
  /\ LET press == pointerLog.press[id]
         crossed == \/ press.crossed
                    \/ /\ press.tracked
                       /\ RLt(R(3), RAdd(RAbs(RSub(cp.x, press.start.x)),
                                         RAbs(RSub(cp.y, press.start.y))))
     IN  pointerLog' =
           [press |-> [pointerLog.press EXCEPT ![id].crossed = crossed],
            last |-> [op |-> "move", id |-> id, crossed |-> crossed,
                      panned |-> pan' # pan]]
  /\ steps' = steps + 1
  /\ UNCHANGED <<client, navConfig, suppressCountryClickUntil, now, zoomButtons>>
  /\ UNCHANGED nonNavVars

SuppressWindowMs == 220

\* endDrag: pointerup and pointercancel on the map
EndDrag(id) ==
  /\ steps < MaxEvents
  /\ IF dragState = NoDrag \/ dragState.pointerId # id
     THEN UNCHANGED <<dragState, suppressCountryClickUntil>>
     ELSE /\ suppressCountryClickUntil' =
               IF dragState.moved THEN now + SuppressWindowMs ELSE suppressCountryClickUntil
          /\ dragState' = NoDrag
  /\ pointerLog' =
       [press |-> [pointerLog.press EXCEPT ![id] = NoPress],
        last |-> [op |-> "up", id |-> id, tracked |-> pointerLog.press[id].tracked,
                  crossed |-> pointerLog.press[id].crossed,
                  armed |-> suppressCountryClickUntil' = now + SuppressWindowMs,
                  kept |-> suppressCountryClickUntil' = suppressCountryClickUntil]]
  /\ steps' = steps + 1
  /\ UNCHANGED <<viewVars, client, navConfig, now, renderFrameId, zoomButtons, lastCall>>
  /\ UNCHANGED nonNavVars

\* the window is resized: the map element gets a new size, the listener requests a render
Resize(size) ==
  /\ steps < MaxEvents
  /\ client' = size
  /\ renderFrameId' = render(renderFrameId)
  /\ steps' = steps + 1
  /\ UNCHANGED <<viewVars, navConfig, gestureVars, now, zoomButtons, lastCall>>
  /\ UNCHANGED nonNavVars

\* the animation frame fires: renderNow(), which calls the game's syncUi() and ends
\* with updateZoomUi().  A frame that is due fires whatever the number of events so
\* far; it counts as an event while the bound allows.
RenderFrame ==
  /\ renderFrameId.callbacks > 0
  /\ renderFrameId' = animationFrame(renderFrameId)
  /\ zoomButtons' = updateZoomUi(zoom, pan, navConfig)
  /\ gameButtons' = syncUi(GameState)
  /\ mobileButtons' = syncMobileControls(initialColors, gameActive)
  /\ geometryCache' = renderedGeometry(geometryCache, client)
  /\ lastRender' = renderWorldOutline(zoom, pan, mapCountries, gameFoundCountryIds,
                                      initialColors, fillConfig)
  /\ layers' = ensureLayers(layers)
  /\ steps' = IF steps < MaxEvents THEN steps + 1 ELSE steps
  /\ UNCHANGED <<viewVars, client, navConfig, gestureVars, now, lastCall>>
  /\ UNCHANGED <<highlightVars, gameCoreVars, lastGeometryCall, mapCountries, fillConfig,
                 clickVars>>

ClockStepMs == 110

\* time passes between two events
TimePasses ==
  /\ steps < MaxEvents
  /\ now' = now + ClockStepMs
  /\ steps' = steps + 1
  /\ UNCHANGED <<viewVars, client, navConfig, gestureVars, renderFrameId, zoomButtons,
                 lastCall>>
  /\ UNCHANGED nonNavVars

InitNav ==
  /\ client \in ClientSizes
  /\ InitView
  /\ paletteConfig = [highlightPalette |-> <<"red", "blue">>, highlightFillColor |-> "gold"]
  /\ InitHighlight
  /\ InitGameIdle

NextNav ==
  \/ ZoomInClick
  \/ ZoomOutClick
  \/ ZoomResetClick
  \/ \E cp \in ClientPoints, neg \in BOOLEAN : Wheel(cp, neg)
  \/ \E id \in PointerIds, cp \in ClientPoints, b \in Buttons : PointerDown(id, cp, b)
  \/ \E id \in PointerIds, cp \in ClientPoints : PointerMove(id, cp)
  \/ \E id \in PointerIds : EndDrag(id)
  \/ \E size \in ClientSizes : Resize(size)
  \/ RenderFrame
  \/ TimePasses

SpecNav == InitNav /\ [][NextNav]_vars

(***************************************************************************)
(* Properties of the pan/zoom controller.                                  *)
(***************************************************************************)
\* the clamp range of one axis at zoom z > 1: [size * (1 - z) - padding, padding]
AxisWithinRange(v, size, z, padding) ==
  /\ RLe(RSub(RMul(size, RSub(R(1), z)), padding), v)
  /\ RLe(v, padding)

CurrentViewport == getViewportSize(client)

\* C1: after any sequence of zoomAroundPoint and panBy calls at a fixed viewport size
\* the pan satisfies the clamp policy for the current zoom: (0, 0) when zoom <= 1, and
\* otherwise each axis lies in [size * (1 - zoom) - panPadding, panPadding].
C1_PanSatisfiesClampPolicy ==
  IF RLe(zoom, R(1))
  THEN pan = Origin
  ELSE /\ AxisWithinRange(pan.x, CurrentViewport.width, zoom, panPaddingOf(navConfig))
       /\ AxisWithinRange(pan.y, CurrentViewport.height, zoom, panPaddingOf(navConfig))

\* a panBy that was clamped at the lower bound of x and at the upper bound of y
C1_Witness ==
  /\ lastCall.name = "panBy"
  /\ lastCall.changed
  /\ RLt(R(1), zoom)
  /\ lastCall.dx = R(-1000)
  /\ lastCall.dy = R(1000)
  /\ pan.x = RSub(RMul(CurrentViewport.width, RSub(R(1), zoom)), panPaddingOf(navConfig))
  /\ pan.y = panPaddingOf(navConfig)
  /\ pan.x # RAdd(lastCall.panBefore.x, lastCall.dx)

\* C2: the ViewTransform invariant in every reachable state of the session, a change
\* of the viewport size included: whenever zoom > 1 the pan lies inside the clamp range
\* computed from the current viewport size, and whenever zoom <= 1 the pan is (0, 0).
C2_ViewTransformInvariant ==
  /\ RLt(R(1), zoom) =>
       /\ AxisWithinRange(pan.x, CurrentViewport.width, zoom, panPaddingOf(navConfig))
       /\ AxisWithinRange(pan.y, CurrentViewport.height, zoom, panPaddingOf(navConfig))
  /\ RLe(zoom, R(1)) => (pan.x = R(0) /\ pan.y = R(0))

\* C3: zoomAroundPoint(z, p) called twice in a row with the same arguments: the second
\* call returns false and leaves zoom and pan as the first call left them.
C3_SecondZoomIsNoOp ==
  (lastCall.name = "zoomAroundPoint" /\ lastCall.repeats) =>
     /\ ~lastCall.changed
     /\ zoom = lastCall.zoomBefore
     /\ pan = lastCall.panBefore

\* the second of two equal calls, whose first changed the zoom to a clamped target
C3_Witness ==
  /\ lastCall.name = "zoomAroundPoint"
  /\ lastCall.repeats
  /\ lastCall.firstChanged
  /\ ~lastCall.changed
  /\ RLt(maxZoomOf(navConfig), lastCall.nextZoom)
  /\ zoom = maxZoomOf(navConfig)

\* the pan p - r * (p - oldPan) of one axis, with r = newZoom / oldZoom
AnchoredPan(pt, newZoom, oldZoom, oldPan) ==
  RSub(pt, RMul(RDiv(newZoom, oldZoom), RSub(pt, oldPan)))

\* the last call was a zoomAroundPoint that changed the zoom and whose computed pan
\* was already inside the clamp policy
UnclampedZoomCall ==
  /\ lastCall.name = "zoomAroundPoint"
  /\ lastCall.changed
  /\ LET rx == AnchoredPan(lastCall.point.x, zoom, lastCall.zoomBefore, lastCall.panBefore.x)
         ry == AnchoredPan(lastCall.point.y, zoom, lastCall.zoomBefore, lastCall.panBefore.y)
     IN  IF RLe(zoom, R(1))
         THEN rx = R(0) /\ ry = R(0)
         ELSE /\ AxisWithinRange(rx, CurrentViewport.width, zoom, panPaddingOf(navConfig))
              /\ AxisWithinRange(ry, CurrentViewport.height, zoom, panPaddingOf(navConfig))

\* the scenario: 800x600, minZoom 1, maxZoom 8, zoom 1, pan (0, 0),
\* zoomAroundPoint(1.2, (400, 300))
C4_Scenario ==
  /\ lastCall.name = "zoomAroundPoint"
  /\ CurrentViewport = [width |-> R(800), height |-> R(600)]
  /\ minZoomOf(navConfig) = R(1)
  /\ maxZoomOf(navConfig) = R(8)
  /\ lastCall.zoomBefore = R(1)
  /\ lastCall.panBefore = Origin
  /\ lastCall.nextZoom = Rat(6, 5)
  /\ lastCall.point = [x |-> R(400), y |-> R(300)]

\* C4: when zoomAroundPoint changes the zoom and the computed pan needs no clamping,
\* the new pan is p - r * (p - oldPan) with r = newZoom / oldZoom, so the map point
\* under p is the same before and after: (p - newPan) / newZoom = (p - oldPan) / oldZoom;
\* in the scenario the result is zoom 1.2 and pan (-80, -60).
C4_ZoomKeepsPointFixed ==
  /\ UnclampedZoomCall =>
       /\ pan.x = AnchoredPan(lastCall.point.x, zoom, lastCall.zoomBefore, lastCall.panBefore.x)
       /\ pan.y = AnchoredPan(lastCall.point.y, zoom, lastCall.zoomBefore, lastCall.panBefore.y)
       /\ RDiv(RSub(lastCall.point.x, pan.x), zoom)
            = RDiv(RSub(lastCall.point.x, lastCall.panBefore.x), lastCall.zoomBefore)
       /\ RDiv(RSub(lastCall.point.y, pan.y), zoom)
            = RDiv(RSub(lastCall.point.y, lastCall.panBefore.y), lastCall.zoomBefore)
  /\ C4_Scenario => (zoom = Rat(6, 5) /\ pan = [x |-> R(-80), y |-> R(-60)])

\* an unclamped zoom from a pan other than (0, 0), around a point other than (0, 0)
C4_Witness ==
  /\ UnclampedZoomCall
  /\ lastCall.panBefore.x # R(0)
  /\ lastCall.point.x # R(0)
  /\ pan.x # R(0)
  /\ pan # lastCall.panBefore

\* C5: panBy(dx, dy) called while zoom <= 1 returns false and leaves zoom and pan
\* unchanged, for every dx and dy.
C5_PanByDisabledAtNativeScale ==
  (lastCall.name = "panBy" /\ RLe(lastCall.zoomBefore, R(1))) =>
     /\ ~lastCall.changed
     /\ zoom = lastCall.zoomBefore
     /\ pan = lastCall.panBefore

\* panBy was called at exactly the native scale
C5_Witness ==
  /\ lastCall.name = "panBy"
  /\ lastCall.zoomBefore = R(1)
  /\ ~lastCall.changed

\* C6: for every configured minZoom <= maxZoom the zoom stays inside [minZoom, maxZoom]
\* in every state reachable by zoom-in, zoom-out, wheel zoom, pan and reset-view.
C6_ZoomWithinBounds ==
  /\ RLe(minZoomOf(navConfig), zoom)
  /\ RLe(zoom, maxZoomOf(navConfig))

(***************************************************************************)
(* The highlight operations, called with arbitrary arguments.              *)
(***************************************************************************)
\* one call `op(input)` with outcome r: the state is replaced and the history extended
HighlightEffect(op, input, r) ==
  LET added == DOMAIN r.state.initialColors \ DOMAIN initialColors
      removed == DOMAIN initialColors \ DOMAIN r.state.initialColors
      readded == added \cap DOMAIN highlightLog.removedColor
      onlyAdds == highlightLog.onlyAdds /\ op = "addInitial"
      letter == toLowerCase(stringOrEmpty(input))
      counted == r.changed /\ letter \in LowercaseLetters
      adds == \/ op = "addInitial"
              \/ op = "toggleInitial" /\ letter \notin highlightLog.highlighted
  IN  /\ initialColors' = r.state.initialColors
      /\ colorCursor' = r.state.colorCursor
      /\ activeInitial' = r.state.activeInitial
      /\ lastHighlightCall' =
           [op |-> op, input |-> input, changed |-> r.changed, before |-> HighlightState,
            added |-> added, removed |-> removed,
            oldColor |-> IF readded = {} THEN ""
                         ELSE highlightLog.removedColor[CHOOSE k \in readded : TRUE]]
      /\ highlightLog' =
           [onlyAdds |-> onlyAdds,
            addOrder |->
              IF ~onlyAdds THEN <<>>
              ELSE IF added = {} THEN highlightLog.addOrder
              ELSE Append(highlightLog.addOrder, CHOOSE k \in added : TRUE),
            removedColor |->
              [k \in (DOMAIN highlightLog.removedColor \cup removed) \ added |->
                 IF k \in removed THEN initialColors[k] ELSE highlightLog.removedColor[k]],
            highlighted |->
              IF op = "clearHighlights"
              THEN (IF r.changed THEN {} ELSE highlightLog.highlighted)
              ELSE IF ~counted THEN highlightLog.highlighted
              ELSE IF adds THEN highlightLog.highlighted \cup {letter}
              ELSE highlightLog.highlighted \ {letter}]

HighlightCall(op, input, r) ==
  /\ steps < MaxHighlightCalls
  /\ HighlightEffect(op, input, r)
  /\ steps' = steps + 1
  /\ UNCHANGED <<paletteConfig, nonHighlightVars>>

AddInitialCall(input) ==
  HighlightCall("addInitial", input,
                addInitial(HighlightState, paletteOf(paletteConfig), input))

RemoveInitialCall(input) ==
  HighlightCall("removeInitial", input, removeInitial(HighlightState, input))

ToggleInitialCall(input) ==
  HighlightCall("toggleInitial", input,
                toggleInitial(HighlightState, paletteOf(paletteConfig), input))

ClearHighlightsCall ==
  HighlightCall("clearHighlights", JsNull, clearHighlights(HighlightState))

InitHighlightApi ==
  /\ paletteConfig \in PaletteConfigs
  /\ InitHighlight
  /\ client = [w |-> R(800), h |-> R(600)]
  /\ navConfig = [minZoom |-> R(1), maxZoom |-> R(8), zoomStep |-> Rat(6, 5),
                  wheelZoomStep |-> Rat(1, 4), panPadding |-> R(0)]
  /\ InitView
  /\ InitGameIdle

NextHighlightApi ==
  \/ \E input \in HighlightInputs : AddInitialCall(input)
  \/ \E input \in HighlightInputs : RemoveInitialCall(input)
  \/ \E input \in HighlightInputs : ToggleInitialCall(input)
  \/ ClearHighlightsCall

SpecHighlightApi == InitHighlightApi /\ [][NextHighlightApi]_vars

(***************************************************************************)
(* The event handlers of setupGameMode, and the Space key of               *)
(* bindKeyboardEvents.                                                     *)
(***************************************************************************)
\* what the game handlers leave alone
nonGameVars == <<zoom, pan, client, navConfig, dragState, pointerLog,
             suppressCountryClickUntil, now,
                 zoomButtons, lastCall, paletteConfig, geometryVars, drawVars, clickVars>>

SetGameState(g) ==
  /\ gameActive' = g.gameActive
  /\ gameStatus' = g.gameStatus
  /\ gameTargetLetter' = g.gameTargetLetter
  /\ gameRequiredCount' = g.gameRequiredCount
  /\ gameTargetCountryIds' = g.gameTargetCountryIds
  /\ gameFoundCountryIds' = g.gameFoundCountryIds
  /\ gameScore' = g.gameScore
  /\ gameStreak' = g.gameStreak
  /\ gameBestStreak' = g.gameBestStreak
  /\ gameBestScore' = g.gameBestScore
  /\ gameFoundCount' = g.gameFoundCount
  /\ gameTimeRemaining' = g.gameTimeRemaining
  /\ gameMessage' = g.gameMessage

\* the history after the operation `op` on the country `countryId` (or "")
GameHistory(op, countryId, interval, after) ==
  LET guessed == op = "guess" /\ gameActive /\ countryId # ""
      correctNew == /\ guessed
                    /\ countryId \in gameTargetCountryIds
                    /\ countryId \notin gameFoundCountryIds
      wrong == op = "guess" /\ gameActive /\ countryId \notin gameTargetCountryIds
  IN  /\ lastGameCall' =
           [op |-> op, countryId |-> countryId, before |-> GameState,
            timerBefore |-> timerId, intervalsBefore |-> intervals,
            interval |-> interval, storedBefore |-> storedBest,
            returned |-> op = "resetRound" /\ hadRoundState(GameState)]
      /\ gameLog' =
           IF op \in { "startRound", "resetRound" }
           THEN [correctRun |-> 0, awards |-> <<>>, ticks |-> 0]
           ELSE IF op = "tick"
           THEN [gameLog EXCEPT !.ticks = IF gameActive THEN @ + 1 ELSE @]
           ELSE IF wrong THEN [gameLog EXCEPT !.correctRun = 0]
           ELSE IF correctNew
           THEN [gameLog EXCEPT !.correctRun = @ + 1,
                                !.awards = Append(@, after.gameScore - gameScore)]
           ELSE gameLog

\* startRound(), for the round that pickTargetRound returned
StartRoundWith(round) ==
  LET after == startRoundState(GameState, gameConfig, round)
      stopped == stopTimer(intervals, timerId)
  IN  /\ steps < MaxGameEvents
      /\ HighlightEffect("clearHighlights", JsNull, clearHighlights(HighlightState))
      /\ SetGameState(after)
      /\ IF round = NoRound
         THEN timerId' = 0 /\ intervals' = stopped /\ UNCHANGED intervalCount
         ELSE /\ intervalCount' = intervalCount + 1
              /\ timerId' = intervalCount + 1
              /\ intervals' = stopped \cup { intervalCount + 1 }
      /\ renderFrameId' = render(renderFrameId)
      /\ GameHistory("startRound", "", 0, after)
      /\ steps' = steps + 1
      /\ UNCHANGED <<gameButtons, mobileButtons, storedBest, storageFails, gameConfig,
                     countryPaths, nonGameVars>>

\* a click on a Start button that is not disabled; Math.random selects any entry of
\* the pool
StartRound ==
  LET pool == poolOf(letterBucketsOf(collectCountryCatalog(countryPaths)))
  IN  /\ ~gameButtons.start
      /\ IF pool = {}
         THEN StartRoundWith(NoRound)
         ELSE \E targetLetter \in pool :
                StartRoundWith(pickTargetRound(countryPaths, gameConfig, targetLetter))

\* resetRound(), called with or without a clearHighlights() before it
ResetRoundAfter(clearsHighlights) ==
  LET after == resetRoundState(GameState, gameConfig, "reset")
      cleared == clearHighlights(HighlightState)
  IN  /\ steps < MaxGameEvents
      /\ IF clearsHighlights
         THEN HighlightEffect("clearHighlights", JsNull, cleared)
         ELSE UNCHANGED <<initialColors, colorCursor, activeInitial, lastHighlightCall,
                          highlightLog>>
      /\ SetGameState(after)
      /\ timerId' = 0
      /\ intervals' = stopTimer(intervals, timerId)
      /\ renderFrameId' = render(renderFrameId)
      /\ GameHistory("resetRound", "", 0, after)
      /\ steps' = steps + 1
      /\ UNCHANGED <<gameButtons, mobileButtons, intervalCount, storedBest, storageFails,
                     gameConfig,
                     countryPaths, nonGameVars>>

\* a click on a Stop button that is not disabled
ResetClick == ~gameButtons.stop /\ ResetRoundAfter(FALSE)

\* the Space key: clearHighlights(), then resetRound()
SpaceKey == ResetRoundAfter(TRUE)

\* a click on the i-th country of the map: the document click handler of the game
\* getPopupCountryFromTarget(target) for a country path: its id, "" for null
getPopupCountryFromTarget(countryId, nowMs, suppressedUntil) ==
  IF nowMs < suppressedUntil THEN "" ELSE countryId

\* the document click listener of setupCountryPopup
popupClick(active, shown, countryId, nowMs, suppressedUntil) ==
  LET details == getPopupCountryFromTarget(countryId, nowMs, suppressedUntil)
  IN  IF active \/ details = ""
      THEN [popup |-> shown, opened |-> FALSE]
      ELSE [popup |-> details, opened |-> TRUE]

\* the document click listener of setupGameMode
gameClick(g, c, stored, fails, countryId, nowMs, suppressedUntil) ==
  IF ~isRoundActive(g) \/ nowMs < suppressedUntil
  THEN [game |-> g, storedBest |-> stored, stopTimer |-> FALSE, render |-> FALSE,
        syncUi |-> FALSE, processed |-> FALSE]
  ELSE [processed |-> TRUE] @@ processCountryGuess(g, c, stored, fails, countryId)

\* mutant of documentClick: the game's listener is registered before the popup's
documentClick_GameFirst(g, c, stored, fails, shown, countryId, nowMs, suppressedUntil) ==
  LET guess == gameClick(g, c, stored, fails, countryId, nowMs, suppressedUntil)
  IN  [guess |-> guess,
       popup |-> popupClick(guess.game.gameActive, shown, countryId, nowMs,
                            suppressedUntil)]

\* a click on a country path: the document's click listeners in the order initApp
\* registered them, setupCountryPopup before setupGameMode
documentClick(g, c, stored, fails, shown, countryId, nowMs, suppressedUntil) ==
  LET shownAfter == popupClick(g.gameActive, shown, countryId, nowMs, suppressedUntil)
  IN  [guess |-> gameClick(g, c, stored, fails, countryId, nowMs, suppressedUntil),
       popup |-> shownAfter]

CountryClick(i) ==
  LET countryId == normalizeCountryId(countryPaths[i].id)
      click == documentClick(GameState, gameConfig, storedBest, storageFails, popup,
                             countryId, now, suppressCountryClickUntil)
      r == click.guess
  IN  /\ steps < MaxGameEvents
      /\ popup' = click.popup.popup
      /\ lastClick' = [op |-> "click", countryId |-> countryId,
                       activeBefore |-> gameActive,
                       suppressed |-> now < suppressCountryClickUntil,
                       opened |-> click.popup.opened, processed |-> r.processed]
      /\ SetGameState(r.game)
      /\ storedBest' = r.storedBest
      /\ timerId' = IF r.stopTimer THEN 0 ELSE timerId
      /\ intervals' = IF r.stopTimer THEN stopTimer(intervals, timerId) ELSE intervals
      /\ renderFrameId' = IF r.render THEN render(renderFrameId) ELSE renderFrameId
      /\ gameButtons' = IF r.syncUi THEN syncUi(r.game) ELSE gameButtons
      /\ UNCHANGED mobileButtons
      /\ GameHistory("guess", countryId, 0, r.game)
      /\ steps' = steps + 1
      /\ UNCHANGED <<intervalCount, storageFails, gameConfig, countryPaths, zoom, pan,
                     client, navConfig, gestureVars, now, zoomButtons, lastCall,
                     paletteConfig, geometryVars, drawVars, initialColors, colorCursor,
                     activeInitial, lastHighlightCall, highlightLog>>

\* a scheduled interval fires, one second after the previous time
IntervalFires(id) ==
  LET r == IF gameActive THEN intervalTick(GameState)
           ELSE [game |-> GameState, ended |-> FALSE]
  IN  /\ id \in intervals
      /\ SetGameState(r.game)
      /\ timerId' = IF ~gameActive \/ r.ended THEN 0 ELSE timerId
      /\ intervals' = IF ~gameActive \/ r.ended THEN stopTimer(intervals, timerId)
                      ELSE intervals
      /\ renderFrameId' = IF r.ended THEN render(renderFrameId) ELSE renderFrameId
      /\ gameButtons' = IF gameActive /\ ~r.ended THEN syncUi(r.game) ELSE gameButtons
      /\ UNCHANGED mobileButtons
      /\ GameHistory("tick", "", id, r.game)
      /\ UNCHANGED <<intervalCount, storedBest, storageFails, gameConfig, countryPaths,
                     nonGameVars, steps, initialColors, colorCursor, activeInitial,
                     lastHighlightCall, highlightLog>>

InitGameSession ==
  /\ client = [w |-> R(800), h |-> R(600)]
  /\ navConfig = [minZoom |-> R(1), maxZoom |-> R(8), zoomStep |-> Rat(6, 5),
                  wheelZoomStep |-> Rat(1, 4), panPadding |-> R(0)]
  /\ InitView
  /\ paletteConfig = [highlightPalette |-> <<"red", "blue">>, highlightFillColor |-> "gold"]
  /\ InitHighlight
  /\ InitGame

NextGame ==
  \/ StartRound
  \/ ResetClick
  \/ SpaceKey
  \/ \E i \in 1..Len(countryPaths) : CountryClick(i)
  \/ \E id \in intervals : IntervalFires(id)
  \/ RenderFrame

SpecGame == InitGameSession /\ [][NextGame]_vars

(***************************************************************************)
(* The game played on a map that has a named country without feature id,   *)
(* with the letter keys: the styles renderWorldOutline gives the paths.    *)
(***************************************************************************)
\* a keydown of a key other than Space outside any input
LetterKey(key) ==
  LET r == addInitial(HighlightState, paletteOf(paletteConfig), Str(key))
      ignored == gameActive \/ ~isSingleLowercaseLetter(key)
  IN  /\ steps < MaxGameEvents
      /\ IF ignored
         THEN UNCHANGED <<initialColors, colorCursor, activeInitial, lastHighlightCall,
                          highlightLog, renderFrameId>>
         ELSE /\ HighlightEffect("addInitial", Str(key), r)
              /\ renderFrameId' = IF r.changed THEN render(renderFrameId)
                                  ELSE renderFrameId
      /\ steps' = steps + 1
      /\ UNCHANGED <<paletteConfig, zoom, pan, client, navConfig, gestureVars, now,
                     zoomButtons, lastCall, gameVars, geometryVars, drawVars, clickVars>>

PressedKeys == { "a", "b", "k", "1" }

\* a click on the chip of `letter` in #mobile-letter-buttons, which takes clicks
\* unless a render disabled it
LetterChipClick(letter) ==
  LET r == toggleInitial(HighlightState, paletteOf(paletteConfig), Str(letter))
  IN  /\ steps < MaxGameEvents
      /\ ~mobileButtons.letters
      /\ HighlightEffect("toggleInitial", Str(letter), r)
      /\ renderFrameId' = IF r.changed THEN render(renderFrameId) ELSE renderFrameId
      /\ steps' = steps + 1
      /\ UNCHANGED <<paletteConfig, zoom, pan, client, navConfig, gestureVars, now,
                     zoomButtons, lastCall, gameVars, geometryVars, drawVars, clickVars>>

\* a click on #mobile-clear-btn while it is not disabled
MobileClearClick ==
  LET r == clearHighlights(HighlightState)
  IN  /\ steps < MaxGameEvents
      /\ ~mobileButtons.clear
      /\ HighlightEffect("clearHighlights", JsNull, r)
      /\ renderFrameId' = IF r.changed THEN render(renderFrameId) ELSE renderFrameId
      /\ steps' = steps + 1
      /\ UNCHANGED <<paletteConfig, zoom, pan, client, navConfig, gestureVars, now,
                     zoomButtons, lastCall, gameVars, geometryVars, drawVars, clickVars>>

ChipLetters == { "a", "b" }

\* Brazil and Austria have a feature id, Kosovo has none
FillMap ==
  << [id |-> "76", name |-> "Brazil"], [id |-> Null, name |-> "Kosovo"],
     [id |-> "4", name |-> "Austria"] >>

InitFill ==
  /\ client = [w |-> R(800), h |-> R(600)]
  /\ navConfig = [minZoom |-> R(1), maxZoom |-> R(8), zoomStep |-> Rat(6, 5),
                  wheelZoomStep |-> Rat(1, 4), panPadding |-> R(0)]
  /\ InitView
  /\ paletteConfig = [highlightPalette |-> <<"red", "blue">>, highlightFillColor |-> "gold"]
  /\ InitHighlight
  /\ gameConfig = [gameRoundSeconds |-> 15, gameTargetCount |-> 3, gameCorrectScore |-> 10,
                   gameWrongPenalty |-> 4, gameStreakBonus |-> 2,
                   gameWinTimeBonusPerSecond |-> R(1)]
  /\ mapCountries = FillMap
  /\ fillConfig \in FillConfigs
  /\ storedBest = 0
  /\ storageFails = FALSE
  /\ InitRound

NextFill ==
  \/ NextGame
  \/ \E key \in PressedKeys : LetterKey(key)

SpecFill == InitFill /\ [][NextFill]_vars

(***************************************************************************)
(* The letter keys and the mobile controls while rounds start and stop.    *)
(***************************************************************************)
InitControls ==
  /\ InitFill
  /\ fillConfig = DefaultFillConfig

NextControls ==
  \/ StartRound
  \/ ResetClick
  \/ SpaceKey
  \/ \E key \in ChipLetters : LetterKey(key)
  \/ \E letter \in ChipLetters : LetterChipClick(letter)
  \/ MobileClearClick
  \/ RenderFrame

SpecControls == InitControls /\ [][NextControls]_vars

(***************************************************************************)
(* A zoom button, the resize listener, the game and the keys together,     *)
(* with animation frames that keep firing.                                 *)
(***************************************************************************)
InitRender ==
  /\ client = [w |-> R(800), h |-> R(600)]
  /\ navConfig = [minZoom |-> R(1), maxZoom |-> R(8), zoomStep |-> Rat(6, 5),
                  wheelZoomStep |-> Rat(1, 4), panPadding |-> R(0)]
  /\ InitView
  /\ paletteConfig = [highlightPalette |-> <<"red", "blue">>, highlightFillColor |-> "gold"]
  /\ InitHighlight
  /\ InitGameIdle

NextRender ==
  \/ ZoomInClick
  \/ \E size \in ClientSizes : Resize(size)
  \/ LetterKey("b")
  \/ SpaceKey
  \/ StartRound
  \/ \E i \in 1..Len(countryPaths) : CountryClick(i)
  \/ RenderFrame

SpecRender == InitRender /\ [][NextRender]_vars /\ WF_vars(RenderFrame)

(***************************************************************************)
(* A round on the clock: the interval of startRound keeps firing while it  *)
(* is scheduled.                                                           *)
(***************************************************************************)
InitCountdown == InitRender

Tick == \E id \in intervals : IntervalFires(id)

NextCountdown ==
  \/ StartRound
  \/ ResetClick
  \/ \E i \in 1..Len(countryPaths) : CountryClick(i)
  \/ Tick
  \/ RenderFrame

SpecCountdown == InitCountdown /\ [][NextCountdown]_vars /\ WF_vars(Tick)

(***************************************************************************)
(* getGeometryState called directly, from the cache of a module that has   *)
(* just been loaded.                                                       *)
(***************************************************************************)
\* two topology objects of equal content, one with another object key, one without
\* any object, and two whose first object is not the preferred one
Topologies ==
  { AppTopology,
    [ref |-> 2, objects |-> <<"countries", "land">>],
    [ref |-> 3, objects |-> <<"ne_110m_admin_0">>],
    [ref |-> 4, objects |-> <<>>],
    [ref |-> 5, objects |-> <<"land", "countries">>],
    [ref |-> 6, objects |-> <<"rivers", "land">>] }

GeometryWidths == { R(320), R(800) }

GeometryHeights == { R(200), R(600) }

\* the last two have different exclusion lists and the same config key
GeometryConfigs ==
  { AppGeometryConfig,
    [AppGeometryConfig EXCEPT !.projection = "geoEqualEarth"],
    [AppGeometryConfig EXCEPT !.fitPadding = 12],
    [AppGeometryConfig EXCEPT !.excludedCountryNames = <<"Antarctica">>],
    [AppGeometryConfig EXCEPT !.excludedCountryIds = <<"010", "304">>],
    [AppGeometryConfig EXCEPT !.excludedCountryIds = <<"010,304">>] }

GetGeometryStateCall(topoJson, width, height, config) ==
  /\ steps < MaxGeometryCalls
  /\ LET r == getGeometryState(geometryCache, topoJson, width, height, config)
     IN  /\ geometryCache' = r.cache
         /\ lastGeometryCall' = [op |-> "getGeometryState", topoJson |-> topoJson,
                                 width |-> width, height |-> height, config |-> config,
                                 cacheBefore |-> geometryCache, computed |-> r.computed,
                                 returned |-> r.returned]
  /\ steps' = steps + 1
  /\ UNCHANGED <<zoom, pan, client, navConfig, dragState, pointerLog,
             suppressCountryClickUntil, now,
                 renderFrameId, zoomButtons, lastCall, highlightVars, gameVars, drawVars,
                 clickVars>>

InitGeometry ==
  /\ client = [w |-> R(800), h |-> R(600)]
  /\ navConfig = [minZoom |-> R(1), maxZoom |-> R(8), zoomStep |-> Rat(6, 5),
                  wheelZoomStep |-> Rat(1, 4), panPadding |-> R(0)]
  /\ InitController
  /\ layers = EmptyLayers
  /\ geometryCache = EmptyGeometryCache
  /\ lastGeometryCall = NoGeometryCall
  /\ paletteConfig = [highlightPalette |-> <<"red", "blue">>, highlightFillColor |-> "gold"]
  /\ InitHighlight
  /\ InitGameIdle

NextGeometry ==
  \E topoJson \in Topologies, width \in GeometryWidths, height \in GeometryHeights,
     config \in GeometryConfigs : GetGeometryStateCall(topoJson, width, height, config)

SpecGeometry == InitGeometry /\ [][NextGeometry]_vars

(***************************************************************************)
(* The whole session: the event handlers of the map and the highlight      *)
(* operations, in any order.                                               *)
(***************************************************************************)
Init ==
  /\ client \in ClientSizes
  /\ InitView
  /\ paletteConfig \in PaletteConfigs
  /\ InitHighlight
  /\ InitGame

Next == NextNav \/ NextHighlightApi \/ NextFill \/ NextGeometry

Spec == Init /\ [][Next]_vars

(***************************************************************************)
(* Properties of the highlight state.                                      *)
(***************************************************************************)
Palette == paletteOf(paletteConfig)

\* C7: starting from an empty highlight state, adding k distinct letters in sequence
\* assigns palette[0], palette[1], ... palette[(k-1) mod paletteLength] in that order
\* and leaves colorCursor = k; with palette [red, blue], adding a, b, c gives a=red,
\* b=blue, c=red and cursor 3.
C7_PaletteCycling ==
  /\ highlightLog.onlyAdds =>
       LET order == highlightLog.addOrder
           k == Len(order)
       IN  /\ colorCursor = k
           /\ DOMAIN initialColors = { order[i] : i \in 1..k }
           /\ \A i, j \in 1..k : order[i] = order[j] => i = j
           /\ \A i \in 1..k : initialColors[order[i]] = Palette[((i - 1) % Len(Palette)) + 1]
  /\ (highlightLog.onlyAdds /\ Palette = <<"red", "blue">>
        /\ highlightLog.addOrder = <<"a", "b", "c">>) =>
       /\ initialColors = [l \in {"a", "b", "c"} |-> IF l = "b" THEN "blue" ELSE "red"]
       /\ colorCursor = 3

\* a, b, c added in this order with the palette [red, blue]: the third color wraps
C7_Witness ==
  /\ highlightLog.onlyAdds
  /\ highlightLog.addOrder = <<"a", "b", "c">>
  /\ Palette = <<"red", "blue">>
  /\ initialColors["c"] = "red"
  /\ colorCursor = 3

\* C8: removing an active letter and then adding it again assigns it
\* palette[cursor mod paletteLength] for the cursor at the time of the re-add, not the
\* color it had before removal; removeInitial does not move the cursor back.
C8_ReAddTakesNextSlot ==
  /\ (lastHighlightCall.op = "addInitial" /\ lastHighlightCall.oldColor # "") =>
       /\ lastHighlightCall.changed
       /\ colorCursor = lastHighlightCall.before.colorCursor + 1
       /\ \A l \in lastHighlightCall.added :
            initialColors[l] =
              Palette[(lastHighlightCall.before.colorCursor % Len(Palette)) + 1]
  /\ lastHighlightCall.op = "removeInitial" =>
       colorCursor = lastHighlightCall.before.colorCursor

\* a letter removed by removeInitial and added again gets a color other than its old one
C8_Witness ==
  /\ lastHighlightCall.op = "addInitial"
  /\ lastHighlightCall.changed
  /\ lastHighlightCall.oldColor # ""
  /\ lastHighlightCall.added = {"a"}
  /\ initialColors["a"] # lastHighlightCall.oldColor
  /\ lastHighlightCall.before.colorCursor = 1

\* C9: clearHighlights() called when no letter is highlighted returns false and leaves
\* initialColors, colorCursor and activeInitial unchanged.
C9_ClearOnEmptyIsNoOp ==
  (lastHighlightCall.op = "clearHighlights"
     /\ DOMAIN lastHighlightCall.before.initialColors = {}) =>
     /\ ~lastHighlightCall.changed
     /\ initialColors = lastHighlightCall.before.initialColors
     /\ colorCursor = lastHighlightCall.before.colorCursor
     /\ activeInitial = lastHighlightCall.before.activeInitial

\* clearHighlights on an empty color map whose cursor has already advanced
C9_Witness ==
  /\ lastHighlightCall.op = "clearHighlights"
  /\ DOMAIN lastHighlightCall.before.initialColors = {}
  /\ lastHighlightCall.before.colorCursor > 0
  /\ colorCursor > 0
  /\ ~lastHighlightCall.changed

\* the call left the highlight state as it was and returned false
RejectedCall ==
  /\ ~lastHighlightCall.changed
  /\ HighlightState = lastHighlightCall.before

\* C10, as stated: addInitial(x) returns false and leaves the highlight state unchanged
\* for every x that is not a single lowercase letter a-z (uppercase letters, digits,
\* empty and multi-character strings included) and for every letter already active.
C10_RejectsAllButLowercaseLetter ==
  (lastHighlightCall.op = "addInitial"
     /\ \/ lastHighlightCall.input.t # "string"
        \/ lastHighlightCall.input.v \notin LowercaseLetters
        \/ lastHighlightCall.input.v \in DOMAIN lastHighlightCall.before.initialColors) =>
     RejectedCall

\* C10, amended: addInitial(x) returns false and leaves the highlight state unchanged
\* for every x whose string form, lowercased, is not a single letter a-z, and for every
\* letter (in either case) that is already active.
C10_RejectsAllButLetter ==
  (lastHighlightCall.op = "addInitial"
     /\ LET letter == toLowerCase(stringOrEmpty(lastHighlightCall.input))
        IN  \/ letter \notin LowercaseLetters
            \/ letter \in DOMAIN lastHighlightCall.before.initialColors) =>
     RejectedCall

\* rejected calls of each kind: a multi-character string, and an active letter given
\* in upper case
C10_Witness ==
  /\ lastHighlightCall.op = "addInitial"
  /\ lastHighlightCall.input = Str("A")
  /\ "a" \in DOMAIN lastHighlightCall.before.initialColors
  /\ RejectedCall

\* the letter a call names: its argument's string form, lowercased
CalledLetter == toLowerCase(stringOrEmpty(lastHighlightCall.input))

\* C11: removeInitial(l) on a letter that is not active changes nothing and returns
\* false; on an active letter it deletes that letter's mapping and no other, sets
\* activeInitial to null exactly when activeInitial was l, leaves the other letters'
\* colors and colorCursor unchanged, and returns true.
C11_RemoveInitial ==
  (lastHighlightCall.op = "removeInitial" /\ CalledLetter \in LowercaseLetters) =>
     LET before == lastHighlightCall.before
     IN  IF CalledLetter \notin DOMAIN before.initialColors
         THEN ~lastHighlightCall.changed /\ HighlightState = before
         ELSE /\ lastHighlightCall.changed
              /\ DOMAIN initialColors = DOMAIN before.initialColors \ {CalledLetter}
              /\ \A k \in DOMAIN initialColors : initialColors[k] = before.initialColors[k]
              /\ activeInitial =
                   (IF before.activeInitial = CalledLetter THEN Null
                    ELSE before.activeInitial)
              /\ colorCursor = before.colorCursor

\* an active letter that is not the newest one is removed while another stays
C11_Witness ==
  /\ lastHighlightCall.op = "removeInitial"
  /\ lastHighlightCall.changed
  /\ CalledLetter \in DOMAIN lastHighlightCall.before.initialColors
  /\ lastHighlightCall.before.activeInitial \notin { CalledLetter, Null }
  /\ activeInitial = lastHighlightCall.before.activeInitial
  /\ DOMAIN initialColors # {}

\* C12: each of addInitial, removeInitial, toggleInitial and clearHighlights returns
\* true if and only if it changed the highlight state; toggleInitial(l) has the effect
\* and result of removeInitial(l) when l is active and of addInitial(l) otherwise.
C12_ReturnsTrueIffChanged ==
  LET before == lastHighlightCall.before
      expected == IF CalledLetter \in DOMAIN before.initialColors
                  THEN removeInitial(before, lastHighlightCall.input)
                  ELSE addInitial(before, Palette, lastHighlightCall.input)
  IN  /\ lastHighlightCall.op # "none" =>
           (lastHighlightCall.changed <=> HighlightState # before)
      /\ lastHighlightCall.op = "toggleInitial" =>
           /\ HighlightState = expected.state
           /\ lastHighlightCall.changed = expected.changed

\* C13: in every reachable state, whatever the arguments of the highlight operations,
\* the keys of initialColors are single lowercase letters a-z, and they are exactly the
\* letters added and not since removed or cleared.
C13_KeysAreHighlightedLetters ==
  /\ DOMAIN initialColors \subseteq LowercaseLetters
  /\ DOMAIN initialColors = highlightLog.highlighted

\* a removal leaves one letter of the two that were added
C13_Witness ==
  /\ lastHighlightCall.op = "removeInitial"
  /\ lastHighlightCall.changed
  /\ Cardinality(DOMAIN lastHighlightCall.before.initialColors) = 2
  /\ Cardinality(DOMAIN initialColors) = 1
  /\ DOMAIN initialColors = highlightLog.highlighted

\* C14: colorCursor never decreases under addInitial, removeInitial and toggleInitial:
\* it grows by exactly 1 on each successful add and is unchanged otherwise; the only
\* operation that lowers it is a clearHighlights that returns true, which sets it to 0
\* together with emptying the map.
C14_CursorMonotone ==
  LET before == lastHighlightCall.before
      op == lastHighlightCall.op
      successfulAdd ==
        /\ lastHighlightCall.changed
        /\ CalledLetter \in LowercaseLetters
        /\ \/ op = "addInitial"
           \/ op = "toggleInitial" /\ CalledLetter \notin DOMAIN before.initialColors
  IN  /\ op \in { "addInitial", "removeInitial", "toggleInitial" } =>
           colorCursor = before.colorCursor + (IF successfulAdd THEN 1 ELSE 0)
      /\ op = "clearHighlights" =>
           IF lastHighlightCall.changed
           THEN colorCursor = 0 /\ DOMAIN initialColors = {}
           ELSE colorCursor = before.colorCursor
      /\ (op # "none" /\ colorCursor < before.colorCursor) =>
           (op = "clearHighlights" /\ lastHighlightCall.changed)

\* a clearHighlights that returns true takes the cursor from 2 or more back to 0
C14_Witness ==
  /\ lastHighlightCall.op = "clearHighlights"
  /\ lastHighlightCall.changed
  /\ lastHighlightCall.before.colorCursor >= 2
  /\ colorCursor = 0
  /\ DOMAIN initialColors = {}

(***************************************************************************)
(* Properties of the game round.                                           *)
(***************************************************************************)
\* the last operation changed the round status from `from` to `to`
StatusChange(from, to) ==
  /\ lastGameCall.op # "none"
  /\ lastGameCall.before.gameStatus = from
  /\ gameStatus = to
  /\ from # to

StatusChanged ==
  lastGameCall.op # "none" /\ lastGameCall.before.gameStatus # gameStatus

\* C15, as stated: every change of the round status is Idle to Running (by startRound),
\* Running to Won (by a guess), Running to Lost (by a tick), or any status to Idle (by
\* an explicit resetRound); a round in Won or Lost leaves that status only through
\* resetRound.
C15_StatusLeavesEndOnlyByReset ==
  StatusChanged =>
    \/ StatusChange("idle", "running") /\ lastGameCall.op = "startRound"
    \/ StatusChange("running", "won") /\ lastGameCall.op = "guess"
    \/ StatusChange("running", "lost") /\ lastGameCall.op = "tick"
    \/ gameStatus = "idle" /\ lastGameCall.op = "resetRound"

\* C15, amended: every change of the round status is Idle, Won or Lost to Running (by
\* startRound), Running to Won (by a guess), Running to Lost (by a tick), or any status
\* to Idle (by an explicit resetRound); a round in Won or Lost leaves that status only
\* through resetRound or a new startRound.
C15_StatusTransitions ==
  StatusChanged =>
    \/ /\ lastGameCall.before.gameStatus \in { "idle", "won", "lost" }
       /\ gameStatus = "running"
       /\ lastGameCall.op = "startRound"
    \/ StatusChange("running", "won") /\ lastGameCall.op = "guess"
    \/ StatusChange("running", "lost") /\ lastGameCall.op = "tick"
    \/ gameStatus = "idle" /\ lastGameCall.op = "resetRound"

\* a round that was won is followed directly by a new running round
C15_Witness ==
  /\ StatusChange("won", "running")
  /\ lastGameCall.op = "startRound"
  /\ gameActive

\* the letter buckets of the countries on the map
LetterBuckets == letterBucketsOf(collectCountryCatalog(countryPaths))

\* the last operation was a startRound that entered Running
RoundStarted == lastGameCall.op = "startRound" /\ gameStatus = "running"

\* C16: startRound always chooses a target letter whose bucket of eligible countries
\* has the maximum size among all letter buckets; a letter with a strictly smaller
\* bucket is never chosen, and among buckets tied for the maximum any may be chosen.
C16_LargestBucketChosen ==
  RoundStarted =>
    \A l \in DOMAIN LetterBuckets :
      Cardinality(LetterBuckets[l]) <= Cardinality(LetterBuckets[gameTargetLetter])

\* C17: when at least one eligible country exists, startRound enters Running with
\* requiredCount = min(configured maximum, size of the chosen bucket), which is at
\* least 1, targetCountryIds equal to the ids of the chosen bucket, an empty found set,
\* score 0, streak 0 and timeRemaining equal to the round duration; when no eligible
\* country exists it does not enter Running and starts no timer.
C17_StartRound ==
  lastGameCall.op = "startRound" =>
    IF DOMAIN LetterBuckets # {}
    THEN /\ gameStatus = "running" /\ gameActive
         /\ gameTargetLetter \in DOMAIN LetterBuckets
         /\ gameTargetCountryIds = LetterBuckets[gameTargetLetter]
         /\ gameRequiredCount =
              IMin(maxTargetCountOf(gameConfig), Cardinality(gameTargetCountryIds))
         /\ gameRequiredCount >= 1
         /\ gameFoundCountryIds = {} /\ gameFoundCount = 0
         /\ gameScore = 0 /\ gameStreak = 0
         /\ gameTimeRemaining = roundSecondsOf(gameConfig)
         /\ timerId # 0 /\ intervals = { timerId }
    ELSE /\ gameStatus # "running" /\ ~gameActive
         /\ timerId = 0 /\ intervals = {}

\* a new round starts over one that had scored, on a bucket of three countries of
\* which the configuration asks for two
C17_Witness ==
  /\ RoundStarted
  /\ Cardinality(gameTargetCountryIds) = 3
  /\ gameRequiredCount = 2
  /\ lastGameCall.before.gameScore > 0
  /\ gameScore = 0

\* C18: foundCountryIds is a subset of targetCountryIds in every reachable state.
C18_FoundWithinTargets == gameFoundCountryIds \subseteq gameTargetCountryIds

\* a country outside the target set is clicked after a target was found
C18_Witness ==
  /\ lastGameCall.op = "guess"
  /\ lastGameCall.before.gameActive
  /\ lastGameCall.countryId \notin gameTargetCountryIds
  /\ lastGameCall.countryId \in DOMAIN collectCountryCatalog(countryPaths)
  /\ gameFoundCountryIds # {}
  /\ gameFoundCountryIds # gameTargetCountryIds

\* the last operation was a guess, made while the round was running, of a country
\* that is a target
GuessedTarget ==
  /\ lastGameCall.op = "guess"
  /\ lastGameCall.before.gameActive
  /\ lastGameCall.countryId \in lastGameCall.before.gameTargetCountryIds

\* ... of a country that is not a target
GuessedOther ==
  /\ lastGameCall.op = "guess"
  /\ lastGameCall.before.gameActive
  /\ lastGameCall.countryId \notin lastGameCall.before.gameTargetCountryIds

\* C19: a correct guess never decreases the score, a wrong guess never increases it,
\* and the score is never negative.
C19_ScoreDirection ==
  /\ GuessedTarget => gameScore >= lastGameCall.before.gameScore
  /\ GuessedOther => gameScore <= lastGameCall.before.gameScore
  /\ gameScore >= 0

\* a wrong guess when the score is smaller than the penalty leaves the score at 0
C19_Witness ==
  /\ GuessedOther
  /\ lastGameCall.before.gameScore > 0
  /\ lastGameCall.before.gameScore < wrongPenaltyOf(gameConfig)
  /\ gameScore = 0

\* the last operation was a guess, made while the round was running, of a target not
\* found before
GuessedNewTarget ==
  GuessedTarget /\ lastGameCall.countryId \notin lastGameCall.before.gameFoundCountryIds

\* the points the last guess awarded, the time bonus of a win left out
PointsAwarded ==
  gameScore - lastGameCall.before.gameScore
    - (IF gameStatus = "won"
       THEN timeBonusOf(lastGameCall.before.gameTimeRemaining, gameConfig) ELSE 0)

\* C20: the k-th correct new guess of an unbroken streak (no wrong guess since the
\* streak began) awards exactly correctScore + (k-1)*streakBonus points and raises
\* streak, foundCount and bestStreak accordingly; with requiredCount = 3,
\* correctScore = 10 and streakBonus = 2, three consecutive correct guesses award 10,
\* 12 and 14 points and end the round in Won.
C20_StreakWeightedPoints ==
  /\ GuessedNewTarget =>
       LET k == gameLog.correctRun
       IN  /\ PointsAwarded =
                correctScoreOf(gameConfig) + (k - 1) * streakBonusOf(gameConfig)
           /\ gameStreak = k
           /\ gameFoundCount = lastGameCall.before.gameFoundCount + 1
           /\ gameBestStreak = IMax(lastGameCall.before.gameBestStreak, k)
  /\ (/\ GuessedNewTarget
      /\ gameRequiredCount = 3
      /\ correctScoreOf(gameConfig) = 10 /\ streakBonusOf(gameConfig) = 2
      /\ gameLog.correctRun = 3 /\ Len(gameLog.awards) = 3) =>
       /\ gameLog.awards[1] = 10
       /\ gameLog.awards[2] = 12
       /\ gameLog.awards[3] =
            14 + timeBonusOf(lastGameCall.before.gameTimeRemaining, gameConfig)
       /\ gameStatus = "won"

\* the third correct guess in a row wins a round of three countries, some seconds
\* into the round
C20_Witness ==
  /\ GuessedNewTarget
  /\ gameRequiredCount = 3
  /\ gameLog.correctRun = 3
  /\ PointsAwarded = 14
  /\ gameTimeRemaining < roundSecondsOf(gameConfig)
  /\ gameStatus = "won"

\* the last operation was the guess that found the last country required
WinningGuess ==
  /\ GuessedNewTarget
  /\ lastGameCall.before.gameFoundCount + 1 >= lastGameCall.before.gameRequiredCount

\* round(timeRemaining * bonusPerSecond), at the time of the last operation
ExpectedTimeBonus ==
  LET product == RMul(R(lastGameCall.before.gameTimeRemaining),
                      winTimeBonusPerSecondOf(gameConfig))
  IN  (2 * product[1] + product[2]) \div (2 * product[2])

\* C21: when a correct guess makes foundCount reach requiredCount, that same step sets
\* the status to Won, stops the timer and adds the time bonus
\* round(timeRemaining * bonusPerSecond) to the score exactly once; afterwards
\* timeRemaining and score do not change until the next startRound or resetRound,
\* whatever guesses or ticks arrive.
C21_WinStopsRound ==
  /\ WinningGuess =>
       /\ gameStatus = "won" /\ ~gameActive
       /\ timerId = 0 /\ intervals = {}
       /\ gameTimeRemaining = lastGameCall.before.gameTimeRemaining
       /\ gameScore =
            lastGameCall.before.gameScore + correctScoreOf(gameConfig)
              + lastGameCall.before.gameStreak * streakBonusOf(gameConfig)
              + ExpectedTimeBonus
  /\ (lastGameCall.op \in { "guess", "tick" } /\ lastGameCall.before.gameStatus = "won") =>
       /\ gameStatus = "won"
       /\ gameTimeRemaining = lastGameCall.before.gameTimeRemaining
       /\ gameScore = lastGameCall.before.gameScore
  /\ gameStatus = "won" => intervals = {}

\* a round won with an odd number of seconds left and half a point per second
C21_Witness ==
  /\ WinningGuess
  /\ gameStatus = "won"
  /\ winTimeBonusPerSecondOf(gameConfig) = Rat(1, 2)
  /\ lastGameCall.before.gameTimeRemaining % 2 = 1
  /\ ExpectedTimeBonus > 0

\* a country is clicked after the round was won
C21_AfterWinWitness ==
  /\ lastGameCall.op = "guess"
  /\ lastGameCall.before.gameStatus = "won"
  /\ lastGameCall.countryId \in gameTargetCountryIds
  /\ gameScore > 0

\* the last operation was a countdown tick of a running round
TickedWhileRunning ==
  lastGameCall.op = "tick" /\ lastGameCall.before.gameStatus = "running"

\* C22: each countdown tick while Running lowers timeRemaining by 1 and never below 0;
\* the tick that brings it to 0 sets the status to Lost, sets the streak to 0 and stops
\* the timer.  Lost is entered in no other way: every state with status Lost has
\* timeRemaining = 0 and was reached from Running by a tick.
C22_TickAndLoss ==
  /\ TickedWhileRunning =>
       /\ gameTimeRemaining = lastGameCall.before.gameTimeRemaining - 1
       /\ gameTimeRemaining >= 0
       /\ IF gameTimeRemaining = 0
          THEN /\ gameStatus = "lost" /\ ~gameActive
               /\ gameStreak = 0
               /\ timerId = 0 /\ intervals = {}
          ELSE /\ gameStatus = "running"
               /\ gameStreak = lastGameCall.before.gameStreak
               /\ gameScore = lastGameCall.before.gameScore
  /\ gameTimeRemaining >= 0
  /\ gameStatus = "lost" => gameTimeRemaining = 0
  /\ (StatusChanged /\ gameStatus = "lost") =>
       (lastGameCall.op = "tick" /\ lastGameCall.before.gameStatus = "running")

\* the time runs out on a round with a streak under way
C22_Witness ==
  /\ TickedWhileRunning
  /\ lastGameCall.before.gameTimeRemaining = 1
  /\ lastGameCall.before.gameStreak > 0
  /\ gameStatus = "lost"
  /\ gameStreak = 0

\* C23: a guess that arrives while the status is not Running (Idle, Won or Lost)
\* changes no field of the round: score, streak, found set, foundCount, status, message
\* and best score are all unchanged.
C23_GuessIgnoredUnlessRunning ==
  (lastGameCall.op = "guess" /\ lastGameCall.before.gameStatus # "running") =>
     /\ GameState = lastGameCall.before
     /\ storedBest = lastGameCall.storedBefore
     /\ timerId = lastGameCall.timerBefore
     /\ intervals = lastGameCall.intervalsBefore

\* a target that was not found is clicked after the time ran out
C23_Witness ==
  /\ lastGameCall.op = "guess"
  /\ lastGameCall.before.gameStatus = "lost"
  /\ lastGameCall.countryId \in gameTargetCountryIds \ gameFoundCountryIds
  /\ gameStatus = "lost"

\* C24: the best score never decreases over any sequence of rounds, resets and guesses,
\* and after every handler that changes the score the best score is at least the
\* current score; the persisted value is written only when the best score strictly
\* increases, and a failing storage read or write changes neither the in-session best
\* score nor any other round field.
C24_BestScore ==
  /\ lastGameCall.op # "none" => gameBestScore >= lastGameCall.before.gameBestScore
  /\ gameBestScore >= gameScore
  /\ (lastGameCall.op # "none" /\ storedBest # lastGameCall.storedBefore) =>
       /\ gameBestScore > lastGameCall.before.gameBestScore
       /\ storedBest = gameBestScore
  /\ (storageFails /\ lastGameCall.op = "none") => gameBestScore = 0
  /\ (storageFails /\ lastGameCall.op = "guess") =>
       /\ storedBest = lastGameCall.storedBefore
       /\ GameState =
            processCountryGuess(lastGameCall.before, gameConfig, lastGameCall.storedBefore,
                                FALSE, lastGameCall.countryId).game

\* a stored best score of an earlier session is beaten and replaced
C24_Witness ==
  /\ lastGameCall.op = "guess"
  /\ lastGameCall.storedBefore = 20
  /\ lastGameCall.before.gameBestScore = 20
  /\ gameBestScore > 20
  /\ storedBest = gameBestScore

\* the best score rises in the session while every write to the storage fails
C24_FailingStorageWitness ==
  /\ storageFails
  /\ lastGameCall.op = "guess"
  /\ gameBestScore > lastGameCall.before.gameBestScore
  /\ storedBest = lastGameCall.storedBefore

\* C25: resetRound() from any state stops the timer and leaves the round at its idle
\* defaults (status Idle, not active, no target letter, requiredCount 0, empty target
\* and found sets, score 0, streak 0, bestStreak 0, foundCount 0) with the best score
\* unchanged; it returns true exactly when there was round state to reset (round
\* active, status not Idle, non-empty found set, or score > 0), and when it returns
\* false the round state is the same as before the call.
C25_ResetRound ==
  lastGameCall.op = "resetRound" =>
    LET before == lastGameCall.before
    IN  /\ timerId = 0 /\ intervals = {}
        /\ gameStatus = "idle" /\ ~gameActive
        /\ gameTargetLetter = Null /\ gameRequiredCount = 0
        /\ gameTargetCountryIds = {} /\ gameFoundCountryIds = {}
        /\ gameScore = 0 /\ gameStreak = 0 /\ gameBestStreak = 0 /\ gameFoundCount = 0
        /\ gameBestScore = before.gameBestScore
        /\ lastGameCall.returned <=>
             \/ before.gameActive
             \/ before.gameStatus # "idle"
             \/ before.gameFoundCountryIds # {}
             \/ before.gameScore > 0
        /\ ~lastGameCall.returned => GameState = before

\* C26: once a round has ended by win, loss or reset, no countdown tick belonging to
\* that round changes any GameRound field: for every interleaving of startRound,
\* resetRound, guesses and timer callbacks (start, reset, start in quick succession
\* included), a tick scheduled by an earlier round never decrements the time of, or
\* ends, a later round.
C26_NoStaleTick ==
  /\ intervals \subseteq { intervalCount }
  /\ ~gameActive => intervals = {}
  /\ lastGameCall.op = "tick" =>
       /\ lastGameCall.interval = intervalCount
       /\ lastGameCall.interval = lastGameCall.timerBefore
       /\ lastGameCall.before.gameActive

\* the tick of the third round started in a row counts that round down
C26_Witness ==
  /\ lastGameCall.op = "tick"
  /\ intervalCount = 3
  /\ lastGameCall.interval = 3
  /\ gameTimeRemaining = lastGameCall.before.gameTimeRemaining - 1
  /\ gameActive

(***************************************************************************)
(* Properties of the rendering.                                            *)
(***************************************************************************)
\* C27: render requests are coalesced: at most one animation-frame callback is pending
\* at any time, and any number of render() requests issued while one is pending
\* produce exactly one renderNow execution.
C27_RenderCoalesced ==
  /\ renderFrameId.callbacks <= 1
  /\ renderFrameId.id <=> renderFrameId.callbacks = 1
  /\ renderFrameId.requests > 0 <=> renderFrameId.callbacks = 1

\* one renderNow() has served three render() requests and no callback is left
C27_Witness ==
  /\ renderFrameId.served = 3
  /\ renderFrameId.callbacks = 0
  /\ renderFrameId.requests = 0

(***************************************************************************)
(* Properties of the geometry cache.                                       *)
(***************************************************************************)
\* the call's topology identity, width, height or config key is not the stored one
DiffersFromStored ==
  LET c == lastGeometryCall
  IN  \/ c.cacheBefore.topoRef # c.topoJson.ref
      \/ c.cacheBefore.width # c.width
      \/ c.cacheBefore.height # c.height
      \/ c.cacheBefore.configKey # buildGeometryConfigKey(c.config)

\* C28: a getGeometryState call computes the geometry exactly when the topology
\* identity, the width, the height or the config key differs from the values stored by
\* the last computation; on a match the stored data is returned unchanged with
\* geometryChanged = false and the cache fields are not written.
C28_GeometryCache ==
  lastGeometryCall.op = "getGeometryState" =>
    /\ lastGeometryCall.computed <=> DiffersFromStored
    /\ ~DiffersFromStored =>
         /\ ~lastGeometryCall.returned.thrown
         /\ lastGeometryCall.returned.data = lastGeometryCall.cacheBefore.data
         /\ ~lastGeometryCall.returned.geometryChanged
         /\ geometryCache = lastGeometryCall.cacheBefore
    /\ geometryCache # lastGeometryCall.cacheBefore =>
         /\ lastGeometryCall.returned.geometryChanged
         /\ geometryCache.topoRef = lastGeometryCall.topoJson.ref
         /\ geometryCache.width = lastGeometryCall.width
         /\ geometryCache.height = lastGeometryCall.height
         /\ geometryCache.configKey = buildGeometryConfigKey(lastGeometryCall.config)

\* a call that matches what an earlier computation stored
C28_Witness ==
  /\ lastGeometryCall.op = "getGeometryState"
  /\ lastGeometryCall.cacheBefore # EmptyGeometryCache
  /\ ~DiffersFromStored
  /\ ~lastGeometryCall.computed

\* a call that differs from the stored values in the height alone
C28_HeightWitness ==
  /\ lastGeometryCall.op = "getGeometryState"
  /\ lastGeometryCall.cacheBefore.topoRef = lastGeometryCall.topoJson.ref
  /\ lastGeometryCall.cacheBefore.width = lastGeometryCall.width
  /\ lastGeometryCall.cacheBefore.configKey = buildGeometryConfigKey(lastGeometryCall.config)
  /\ lastGeometryCall.cacheBefore.height # lastGeometryCall.height
  /\ lastGeometryCall.computed

(***************************************************************************)
(* Properties of the country styles.                                       *)
(***************************************************************************)
\* the id the game knows the country of path i by
GameIdOf(i) == normalizeCountryId(countryPaths[i].id)

FoundFill == StringOr(fillConfig.gameFoundFillColor, "#37b24d")

FoundStroke == StringOr(fillConfig.gameFoundStrokeColor, "#1f7a34")

\* C29: in every render a country whose id is in the found set the render read gets the
\* found fill and stroke, also when its initial letter is highlighted; otherwise a
\* country whose name's lowercased first letter is a highlight key gets that letter's
\* color; otherwise it gets the neutral land fill.
C29_FillPriority ==
  \A i \in 1..Len(countryPaths) :
    LET initial == getCountryInitial(countryPaths[i].name)
        style == lastRender.styles[i]
    IN  IF GameIdOf(i) \in lastRender.found
        THEN style.fill = FoundFill /\ style.stroke = FoundStroke
        ELSE IF initial \in DOMAIN lastRender.initialColors
        THEN style.fill = lastRender.initialColors[initial]
        ELSE style.fill = "url(#land-gradient)"

\* the rule of C29 holds for every country that has a feature id
C29_FillPriorityWithFeatureId ==
  \A i \in 1..Len(countryPaths) :
    LET initial == getCountryInitial(countryPaths[i].name)
        style == lastRender.styles[i]
    IN  mapCountries[i].id # Null =>
          IF GameIdOf(i) \in lastRender.found
          THEN style.fill = FoundFill /\ style.stroke = FoundStroke
          ELSE IF initial \in DOMAIN lastRender.initialColors
          THEN style.fill = lastRender.initialColors[initial]
          ELSE style.fill = "url(#land-gradient)"

\* a render that found a country's letter highlighted and its id in the found set
C29_FoundAndHighlighted ==
  \E i \in 1..Len(countryPaths) :
    /\ mapCountries[i].id # Null
    /\ GameIdOf(i) \in lastRender.found
    /\ getCountryInitial(countryPaths[i].name) \in DOMAIN lastRender.initialColors

(***************************************************************************)
(* Properties of the layers.                                               *)
(***************************************************************************)
\* C30: after every render the layers are stacked back to front in the order
\* background, coastline/border linework, country fills, capitals, proportional
\* circles, leader badges, labels.
C30_LayerOrder ==
  layerStack(layers) = <<"background", "linework", "countries", "capitals",
                         "population-circles", "leader-badges", "labels">>

\* C30 as amended: after every render the layers are stacked back to front in the
\* order background, country fills, coastline/border linework, proportional circles,
\* leader badges, labels, capitals, whatever the number of renders.
C30_LayerOrderAsBuilt ==
  layerStack(layers) = <<"background", "countries", "linework", "population-circles",
                         "leader-badges", "labels", "capitals">>

\* an animation frame has rendered again what the first render of initApp built
C30_Witness ==
  /\ renderFrameId.served > 0
  /\ layers = ensureLayers(EmptyLayers)
  /\ Len(layerStack(layers)) = 7

(***************************************************************************)
(* Properties of the topology resolution.                                  *)
(***************************************************************************)
\* the names of the collections of the topology of the last call
CalledCollections ==
  { lastGeometryCall.topoJson.objects[i] : i \in 1..Len(lastGeometryCall.topoJson.objects) }

\* C31: a computation takes the collection named countries if there is one, else the
\* one named land, else the first collection; on a topology without collection it
\* fails, the geometry cache is left as it was and no data is returned to draw from.
C31_TopologyResolution ==
  (lastGeometryCall.op = "getGeometryState" /\ lastGeometryCall.computed) =>
    /\ lastGeometryCall.returned.thrown <=> CalledCollections = {}
    /\ lastGeometryCall.returned.thrown =>
         /\ geometryCache = lastGeometryCall.cacheBefore
         /\ lastGeometryCall.returned.data = NoGeometryData
    /\ ~lastGeometryCall.returned.thrown =>
         /\ lastGeometryCall.returned.data.topologyObject =
              (IF "countries" \in CalledCollections THEN "countries"
               ELSE IF "land" \in CalledCollections THEN "land"
               ELSE lastGeometryCall.topoJson.objects[1])
         /\ geometryCache.data = lastGeometryCall.returned.data

\* a call on a topology without collection after a computation has filled the cache
C31_Witness ==
  /\ lastGeometryCall.op = "getGeometryState"
  /\ lastGeometryCall.returned.thrown
  /\ lastGeometryCall.cacheBefore # EmptyGeometryCache
  /\ geometryCache = lastGeometryCall.cacheBefore

\* a computation that took countries although it is not the first collection
C31_PreferredWitness ==
  /\ lastGeometryCall.op = "getGeometryState"
  /\ lastGeometryCall.computed
  /\ Len(lastGeometryCall.topoJson.objects) = 2
  /\ lastGeometryCall.topoJson.objects[1] = "land"
  /\ geometryCache.data.topologyObject = "countries"

(***************************************************************************)
(* Properties of the render scheduling.                                    *)
(***************************************************************************)
\* what renderNow would draw from the state as it is now
DrawnNow ==
  renderWorldOutline(zoom, pan, mapCountries, gameFoundCountryIds, initialColors,
                     fillConfig)

\* no frame is requested: the last renderNow has seen every mutation
RenderedStateIsCurrent == renderFrameId.requests = 0 => lastRender = DrawnNow

\* a handler's request is held by the token and by one queued callback
RequestHeld ==
  renderFrameId.requests > 0 => renderFrameId.id /\ renderFrameId.callbacks = 1

\* C32: every render request is followed by a renderNow while animation frames keep
\* firing; a request is never lost, also when it comes after an earlier draw; and the
\* renderNow draws the state with every mutation made before it, so that with no
\* request outstanding what was drawn is the current state.
C32_RenderFollowsMutation ==
  /\ [](RenderedStateIsCurrent /\ RequestHeld)
  /\ (renderFrameId.requests > 0) ~> (renderFrameId.requests = 0)

\* a frame has drawn a found country and a changed zoom, after an earlier frame
C32_Witness ==
  /\ renderFrameId.requests = 0
  /\ renderFrameId.served > 0
  /\ lastRender.found # {}
  /\ lastRender.transform.zoom # R(1)
  /\ lastRender = DrawnNow

(***************************************************************************)
(* Properties of the guesses that score nothing.                           *)
(***************************************************************************)
\* the round after the last call, with the message it had before the call
GameStateButMessage == [GameState EXCEPT !.gameMessage = lastGameCall.before.gameMessage]

GuessedFoundTarget ==
  /\ GuessedTarget
  /\ lastGameCall.countryId \in lastGameCall.before.gameFoundCountryIds

\* C33: a guess on a target country that is already found changes only the message:
\* score, streak, best streak, found count, found set, status, time and best score
\* (in the round and in the storage) are as before, and the timer runs on.
C33_RepeatedGuessOnlyMessage ==
  GuessedFoundTarget =>
    /\ GameStateButMessage = lastGameCall.before
    /\ gameMessage = "already counted"
    /\ storedBest = lastGameCall.storedBefore
    /\ timerId = lastGameCall.timerBefore
    /\ intervals = lastGameCall.intervalsBefore

\* a second click on a found country while the streak was 1
C33_Witness ==
  /\ GuessedFoundTarget
  /\ gameStatus = "running"
  /\ gameStreak = 1
  /\ gameFoundCount = 1
  /\ gameMessage = "already counted"

\* C34: a guess while Running on a country outside the target set sets the streak to
\* 0 and the score to max(0, score - wrongPenalty), and leaves the found set, found
\* count, best streak, status, time and best score unchanged.
C34_WrongGuess ==
  GuessedOther =>
    /\ gameStreak = 0
    /\ gameScore = IMax(0, lastGameCall.before.gameScore - wrongPenaltyOf(gameConfig))
    /\ [GameStateButMessage EXCEPT !.gameStreak = lastGameCall.before.gameStreak,
                                   !.gameScore = lastGameCall.before.gameScore]
         = lastGameCall.before
    /\ storedBest = lastGameCall.storedBefore
    /\ timerId = lastGameCall.timerBefore
    /\ intervals = lastGameCall.intervalsBefore

\* a wrong guess that took the penalty from a score above it and ended a streak
C34_Witness ==
  /\ GuessedOther
  /\ lastGameCall.before.gameStreak > 0
  /\ lastGameCall.before.gameScore > wrongPenaltyOf(gameConfig)
  /\ gameScore = lastGameCall.before.gameScore - wrongPenaltyOf(gameConfig)
  /\ gameBestStreak > 0

\* a wrong guess on a score below the penalty
C34_FloorWitness ==
  /\ GuessedOther
  /\ lastGameCall.before.gameScore < wrongPenaltyOf(gameConfig)
  /\ gameScore = 0

\* the last pointermove panned the map
PannedByMove == pointerLog.last.op = "move" /\ pointerLog.last.panned

\* the last event released a press whose total movement had exceeded 3 px
ReleasedAfterCrossing ==
  /\ pointerLog.last.op = "up"
  /\ pointerLog.last.tracked
  /\ pointerLog.last.crossed

\* the last event released a pointer that never moved more than 3 px from its press
ReleasedWithoutCrossing == pointerLog.last.op = "up" /\ ~pointerLog.last.crossed

\* the last click on a country came inside the suppress window
ClickedInWindow == lastClick.op = "click" /\ lastClick.suppressed

\* the parts of C35 that hold for every gesture: a move pans only once the press has
\* moved more than 3 px in total, a release that never crossed arms no window, and a
\* click inside the window neither opens the popup nor is processed as a guess
C35_ThresholdAndWindow ==
  /\ PannedByMove => pointerLog.last.crossed
  /\ ReleasedWithoutCrossing => pointerLog.last.kept
  /\ ClickedInWindow => ~lastClick.opened /\ ~lastClick.processed

\* C35: a pointer gesture pans the map only after its total movement exceeds the
\* threshold (|dx| + |dy| > 3); a release of a gesture that crossed the threshold arms
\* a suppress window of 220 ms, during which a click on a country neither opens the
\* country popup nor is processed as a game guess; a release that never crossed the
\* threshold arms no window.
C35_DragSuppressesClick ==
  /\ C35_ThresholdAndWindow
  /\ ReleasedAfterCrossing => pointerLog.last.armed

\* a drag that panned the map, whose release armed no window
C35_PannedReleaseUnarmed ==
  /\ ReleasedAfterCrossing
  /\ ~pointerLog.last.armed
  /\ pan # Origin

\* C36: while a round is Running no initial-letter highlight is active: startRound
\* empties the highlight state, and in every state reachable afterwards with status
\* Running (through key presses, letter-chip clicks or clear actions, including events
\* that arrive before the next render has disabled the controls) initialColors stays
\* empty.
C36_NoHighlightWhileRunning ==
  gameStatus = "running" => DOMAIN initialColors = {}

\* startRound itself leaves no highlight, whatever was highlighted before it
C36_StartRoundClearsHighlight ==
  lastGameCall.op = "startRound" /\ lastHighlightCall.op = "clearHighlights"
    => DOMAIN initialColors = {}

\* a chip was clicked in a running round before the render that disables the chips
C36_ChipClickedBeforeRender ==
  /\ gameStatus = "running"
  /\ lastHighlightCall.op = "toggleInitial"
  /\ ~mobileButtons.letters
  /\ renderFrameId.callbacks > 0
  /\ DOMAIN initialColors # {}

\* C37: a single click on a country is never both processed as a game guess and used
\* to open the country popup: while a round is Running a click is a guess only, and
\* the click that wins the round opens no popup although the round is no longer
\* active once its guess has been processed.
C37_GuessOrPopup ==
  lastClick.op = "click" =>
    /\ ~(lastClick.processed /\ lastClick.opened)
    /\ lastClick.activeBefore /\ ~lastClick.suppressed
         => lastClick.processed /\ ~lastClick.opened
    /\ ~lastClick.activeBefore => ~lastClick.processed

\* the click that won the round: processed as a guess, the round is over, no popup
C37_Witness ==
  /\ lastClick.op = "click"
  /\ lastClick.processed
  /\ ~lastClick.opened
  /\ lastGameCall.op = "guess"
  /\ lastGameCall.countryId = lastClick.countryId
  /\ gameStatus = "won"
  /\ ~gameActive
  /\ popup = ""

\* a click outside any round opened the popup of the country
C37_PopupWitness ==
  /\ lastClick.op = "click"
  /\ lastClick.opened
  /\ ~lastClick.activeBefore
  /\ popup = lastClick.countryId

\* C38: gameActive is true exactly when the status is Running; a countdown timer is
\* live exactly when the status is Running; and at most one timer is live, for any
\* sequence of operations, including startRound while a round is Running.
C38_ActiveRunningTimer ==
  /\ gameActive <=> gameStatus = "running"
  /\ intervals # {} <=> gameStatus = "running"
  /\ Cardinality(intervals) <= 1
  /\ intervals = IF gameStatus = "running" THEN { timerId } ELSE {}

\* startRound while a round was Running: the old timer is gone, a new one is live
C38_Witness ==
  /\ lastGameCall.op = "startRound"
  /\ lastGameCall.before.gameStatus = "running"
  /\ lastGameCall.intervalsBefore = { lastGameCall.timerBefore }
  /\ gameStatus = "running"
  /\ intervals = { timerId }
  /\ timerId # lastGameCall.timerBefore

\* a round that ended by a win or by the clock has no live timer
C38_EndedWitness ==
  /\ gameStatus \in { "won", "lost" }
  /\ ~gameActive
  /\ intervals = {}

\* C39: foundCount equals the size of the found set and never exceeds requiredCount;
\* the status is Won exactly when a round has been started and foundCount equals
\* requiredCount; in Running and Lost foundCount is below requiredCount.
C39_FoundCount ==
  /\ gameFoundCount = Cardinality(gameFoundCountryIds)
  /\ gameFoundCount <= gameRequiredCount
  /\ gameStatus = "won" <=> (gameTargetLetter # Null /\ gameFoundCount = gameRequiredCount)
  /\ gameStatus \in { "running", "lost" } => gameFoundCount < gameRequiredCount

\* a round of three targets won by its third find, out of a larger bucket or not
C39_Witness ==
  /\ gameStatus = "won"
  /\ lastGameCall.op = "guess"
  /\ lastGameCall.before.gameStatus = "running"
  /\ gameRequiredCount > 1
  /\ gameFoundCount = gameRequiredCount
  /\ Cardinality(gameFoundCountryIds) = gameRequiredCount

\* a round lost with some but not all of its targets found
C39_LostWitness ==
  /\ gameStatus = "lost"
  /\ gameFoundCount > 0
  /\ gameFoundCount < gameRequiredCount

\* the ticks of the running round so far and the time left add up to its duration,
\* and a running round has time left
CountdownOnSchedule ==
  gameStatus = "running" =>
    /\ gameTimeRemaining = roundSecondsOf(gameConfig) - gameLog.ticks
    /\ gameTimeRemaining > 0
    /\ gameLog.ticks < roundSecondsOf(gameConfig)

\* C40: a Running round eventually leaves Running: while the 1-second timer keeps
\* firing, the status becomes Won, Lost or Idle within at most the configured round
\* duration in ticks, whatever guesses are made.
C40_RoundEnds ==
  /\ []CountdownOnSchedule
  /\ (gameStatus = "running") ~> (gameStatus \in { "won", "lost", "idle" })

\* the clock ended a round in which guesses were made: the last tick was the
\* roundSeconds-th
C40_Witness ==
  /\ gameStatus = "lost"
  /\ lastGameCall.op = "tick"
  /\ lastGameCall.before.gameStatus = "running"
  /\ gameLog.ticks = roundSecondsOf(gameConfig)
  /\ gameTimeRemaining = 0
  /\ lastClick.op = "click" /\ lastClick.processed

====
